---- MODULE Spec2Model ----
(***************************************************************************)
(* A model of the Store of openclaw-tinmem: the TinmemDB class of          *)
(* src/src/memory/db.ts (the write chain, the CRUD operations with their   *)
(* delete-then-add rollback, the validated reads) and the validators and   *)
(* the escaper of sql-safety.ts (src/unnamed/part_000).                    *)
(*                                                                         *)
(* Every call of a TinmemDB method is a slot of `calls`; a call advances   *)
(* one await at a time, so that calls interleave exactly where the         *)
(* JavaScript event loop lets them.  The LanceDB table is the sequence     *)
(* `table`; each engine operation (add, delete, query) is atomic.          *)
(*                                                                         *)
(* Strings that are matched by a regular expression or escaped are         *)
(* sequences of one-character strings; ids and scopes are named by short   *)
(* strings whose text IdText and ScopeText give.                           *)
(*                                                                         *)
(* On top of the Store: the MemoryManager (manager.ts) with the extractor  *)
(* and the deduplicator, where a Store method is one step; getDB; the      *)
(* MemoryScorer; and MemoryRetriever.retrieve with its detached access     *)
(* bumps.  Each has a specification of its own over the same variables.    *)
(***************************************************************************)
EXTENDS Integers, Sequences, FiniteSets, TLC

\* ------------------------------------------------------------------ bounds

\* Number of method calls of one behaviour (of TinmemDB, of MemoryManager,
\* of getDB).
MaxCalls == 2
\* Number of spontaneous failures of a service (the engine, the embedding
\* service) of one behaviour.
MaxFaults == 1
\* Largest value of the clock read by Date.now().
MaxClock == 1
\* Longest input string of the escaper's specification.
MaxLen == 4

\* The configured dimensionality (this.dimensions) of the model's table.
Dimensions == 2

\* ------------------------------------------------------------------ text

Rep(c, n) == [i \in 1..n |-> c]

Digits == {"0","1","2","3","4","5","6","7","8","9"}

HexDigits == Digits \cup {"a","b","c","d","e","f","A","B","C","D","E","F"}

Lower ==
    {"a","b","c","d","e","f","g","h","i","j","k","l","m",
     "n","o","p","q","r","s","t","u","v","w","x","y","z"}

Upper ==
    {"A","B","C","D","E","F","G","H","I","J","K","L","M",
     "N","O","P","Q","R","S","T","U","V","W","X","Y","Z"}

\* The character class [a-zA-Z0-9_.\-] of SCOPE_RE.
ScopeIdChars == Lower \cup Upper \cup Digits \cup {"_", ".", "-"}

\* A canonical 8-4-4-4-12 text whose digits are all c.
UuidOf(c) ==
    Rep(c, 8) \o <<"-">> \o Rep(c, 4) \o <<"-">> \o Rep(c, 4) \o <<"-">>
        \o Rep(c, 4) \o <<"-">> \o Rep(c, 12)

InjectionText ==
    <<"'", ";", " ", "D", "R", "O", "P", " ", "T", "A", "B", "L", "E", " ",
      "m", "e", "m", "o", "r", "i", "e", "s", ";", " ", "-", "-">>

\* The ids uuidv4() hands out, in order; every one is a canonical UUID.
UuidPool == <<"u1", "u2", "u3", "u4", "u5", "u6">>

\* Ids a caller may pass: the first two of the pool, and two texts that are
\* not UUIDs (the injection text of the tests and a UUID with a trailing x).
ValidIdArgs == {"u1", "u2"}
InvalidIdArgs == {"inj", "extra"}
IdArgs == ValidIdArgs \cup InvalidIdArgs

\* Every id text of the model, for the validators' own specification.
IdTexts == {"u1", "u2", "u3", "UA", "inj", "", "partial", "extra", "__tinmem_init__"}

IdText(n) ==
    CASE n = "u1" -> UuidOf("1")
      [] n = "u2" -> UuidOf("2")
      [] n = "u3" -> UuidOf("3")
      [] n = "u4" -> UuidOf("4")
      [] n = "u5" -> UuidOf("5")
      [] n = "u6" -> UuidOf("6")
      [] n = "UA" -> UuidOf("A")
      [] n = "inj" -> InjectionText
      [] n = "" -> <<>>
      [] n = "partial" -> Rep("5", 8) \o <<"-">> \o Rep("e", 4)
      [] n = "extra" -> UuidOf("5") \o <<"x">>
      [] n = "__tinmem_init__" ->
            <<"_","_","t","i","n","m","e","m","_","i","n","i","t","_","_">>

ValidScopeArgs == {"global", "agent:a"}
InvalidScopeArgs == {"", "global' OR '1'='1"}
ScopeArgs == ValidScopeArgs \cup InvalidScopeArgs

ScopeTexts == ScopeArgs \cup {"unknown:x", "agent:"}

ScopeText(n) ==
    CASE n = "global" -> <<"g","l","o","b","a","l">>
      [] n = "agent:a" -> <<"a","g","e","n","t",":","a">>
      [] n = "" -> <<>>
      [] n = "global' OR '1'='1" ->
            <<"g","l","o","b","a","l","'"," ","O","R"," ","'","1","'","=","'","1">>
      [] n = "unknown:x" -> <<"u","n","k","n","o","w","n",":","x">>
      [] n = "agent:" -> <<"a","g","e","n","t",":">>

ValidCategoryArgs == {"profile"}
InvalidCategoryArgs == {"Profile"}
CategoryArgs == ValidCategoryArgs \cup InvalidCategoryArgs

\* ------------------------------------------------------------ sql-safety

\* UUID_RE with the bug of a missing end anchor.
UUID_RE_Unanchored(s) ==
    /\ Len(s) >= 36
    /\ \A i \in 1..36 :
          IF i \in {9, 14, 19, 24} THEN s[i] = "-" ELSE s[i] \in HexDigits

\* UUID_RE.test(value)
UUID_RE(s) ==
    /\ Len(s) = 36
    /\ \A i \in 1..36 :
          IF i \in {9, 14, 19, 24} THEN s[i] = "-" ELSE s[i] \in HexDigits

VALID_CATEGORIES ==
    {"profile", "preferences", "entities", "events", "cases", "patterns"}

ScopePrefixes ==
    { <<"a","g","e","n","t",":">>, <<"p","r","o","j","e","c","t",":">>,
      <<"u","s","e","r",":">>, <<"c","u","s","t","o","m",":">> }

\* SCOPE_RE.test(value)
SCOPE_RE(s) ==
    \/ s = <<"g","l","o","b","a","l">>
    \/ \E p \in ScopePrefixes :
          /\ Len(s) > Len(p)
          /\ SubSeq(s, 1, Len(p)) = p
          /\ \A i \in (Len(p) + 1)..Len(s) : s[i] \in ScopeIdChars

\* assertUuid, assertScope, assertCategory: TRUE when the validator returns,
\* FALSE when it throws.
assertUuid(id) == UUID_RE(IdText(id))

assertScope(scope) == SCOPE_RE(ScopeText(scope))

assertCategory(category) == category \in VALID_CATEGORIES

\* escapeSqlLiteral with the bug of returning its argument.
escapeSqlLiteralIdentity(value) == value

RECURSIVE escapeSqlLiteral(_)
\* value.replace(/'/g, "''")
escapeSqlLiteral(value) ==
    IF value = <<>> THEN <<>>
    ELSE (IF Head(value) = "'" THEN <<"'", "'">> ELSE <<Head(value)>>)
            \o escapeSqlLiteral(Tail(value))

\* ------------------------------------------------------- predicate strings

RECURSIVE Join(_, _)
\* parts.join(sep)
Join(parts, sep) ==
    IF parts = <<>> THEN <<>>
    ELSE IF Len(parts) = 1 THEN parts[1]
    ELSE parts[1] \o sep \o Join(Tail(parts), sep)

\* '${escapeSqlLiteral(value)}'
QuotedLiteral(value) == <<"'">> \o escapeSqlLiteral(value) \o <<"'">>

\* `id = '${escapeSqlLiteral(id)}'`
IdPredicate(id) == <<"i","d"," ","="," ">> \o QuotedLiteral(id)

\* `scope = '${escapeSqlLiteral(scope)}'`
ScopePredicate(scope) == <<"s","c","o","p","e"," ","="," ">> \o QuotedLiteral(scope)

\* `category = '${escapeSqlLiteral(c)}'`
CategoryPredicate(c) ==
    <<"c","a","t","e","g","o","r","y"," ","="," ">> \o QuotedLiteral(c)

\* `id IN (${ids.map(id => `'${escapeSqlLiteral(id)}'`).join(', ')})`
IdInPredicate(ids) ==
    <<"i","d"," ","I","N"," ","(">>
        \o Join([i \in 1..Len(ids) |-> QuotedLiteral(ids[i])], <<",", " ">>)
        \o <<")">>

\* The filter of vectorSearch, fullTextSearch and list: one parenthesised
\* OR-group per filter dimension that is given, the groups joined by AND.
FilterPredicate(scopes, categories) ==
    LET scopeGroup ==
            <<"(">> \o Join([i \in 1..Len(scopes) |-> ScopePredicate(scopes[i])],
                            <<" ","O","R"," ">>) \o <<")">>
        catGroup ==
            <<"(">> \o Join([i \in 1..Len(categories) |-> CategoryPredicate(categories[i])],
                            <<" ","O","R"," ">>) \o <<")">>
        filters ==
            (IF scopes # <<>> THEN <<scopeGroup>> ELSE <<>>)
                \o (IF categories # <<>> THEN <<catGroup>> ELSE <<>>)
    IN  Join(filters, <<" ","A","N","D"," ">>)

\* ------------------------------------------------------------ optional values

\* undefined / null is the empty sequence, a present value v is <<v>>.
None == <<>>

Some(v) == <<v>>

\* a ?? b
Coalesce(a, b) == IF a # None THEN a ELSE b

\* ------------------------------------------------------------ serialisation

\* JSON.stringify(x) of a value that is defined.
JSONstringify(x) == [json |-> x]

\* JSON.parse(text) inside try/catch: the parsed value, or the fallback when
\* the column does not hold JSON text.
JSONparseOr(text, fallback) ==
    IF DOMAIN text = {"json"} THEN text.json ELSE fallback

\* The properties of a MemoryRecord.
RecordKeys ==
    { "id", "headline", "summary", "content", "category", "scope", "importance",
      "createdAt", "updatedAt", "accessCount", "lastAccessedAt", "tags", "metadata",
      "vector" }

\* TinmemDB.toRow; a property of m that is undefined gives no value for its
\* column (JSON.stringify(undefined) is undefined too).
toRow(m) ==
    IF DOMAIN m # RecordKeys
    THEN [ column \in DOMAIN m |->
              IF column \in {"tags", "metadata"} THEN JSONstringify(m[column])
              ELSE m[column] ]
    ELSE
    [ id |-> m.id,
      headline |-> m.headline,
      summary |-> m.summary,
      content |-> m.content,
      category |-> m.category,
      scope |-> m.scope,
      importance |-> m.importance,
      createdAt |-> m.createdAt,
      updatedAt |-> m.updatedAt,
      accessCount |-> m.accessCount,
      lastAccessedAt |-> m.lastAccessedAt,
      tags |-> JSONstringify(m.tags),
      metadata |-> JSONstringify(m.metadata),
      vector |-> m.vector ]

\* TinmemDB.fromRow: the returned Memory has no vector property.  A column
\* without a value gives an undefined property, except tags and metadata,
\* whose JSON.parse throws and leaves the defaults.
fromRow(row) ==
    IF DOMAIN row # RecordKeys
    THEN [ key \in DOMAIN row \cup {"tags", "metadata", "vector"} |->
              IF key = "vector" THEN None
              ELSE IF key \in {"tags", "metadata"}
              THEN (IF key \in DOMAIN row THEN JSONparseOr(row[key], <<>>) ELSE <<>>)
              ELSE row[key] ]
    ELSE
    [ id |-> row.id,
      headline |-> row.headline,
      summary |-> row.summary,
      content |-> row.content,
      category |-> row.category,
      scope |-> row.scope,
      importance |-> row.importance,
      createdAt |-> row.createdAt,
      updatedAt |-> row.updatedAt,
      accessCount |-> row.accessCount,
      lastAccessedAt |-> row.lastAccessedAt,
      tags |-> JSONparseOr(row.tags, <<>>),
      metadata |-> JSONparseOr(row.metadata, <<>>),
      vector |-> None ]

INIT_SENTINEL_ID == "__tinmem_init__"

\* buildDummyRow(dimensions)
buildDummyRow(dimensions) ==
    [ id |-> INIT_SENTINEL_ID,
      headline |-> "",
      summary |-> "",
      content |-> "",
      category |-> "profile",
      scope |-> "global",
      importance |-> 0,
      createdAt |-> 0,
      updatedAt |-> 0,
      accessCount |-> 0,
      lastAccessedAt |-> 0,
      tags |-> JSONstringify(<<>>),
      metadata |-> JSONstringify(<<>>),
      vector |-> Some(Rep(0, dimensions)) ]

\* ------------------------------------------------------------------ inputs

\* Embedding vectors of the configured dimensionality.
V1 == [i \in 1..Dimensions |-> IF i = 1 THEN 1 ELSE 0]
V2 == [i \in 1..Dimensions |-> IF i = 2 THEN 1 ELSE 0]

\* The argument of insert: a MemoryRecord without id, timestamps and
\* accessCount.  Importance is in hundredths.
InsertArgs ==
    { [ headline |-> "h0", summary |-> "s0", content |-> "c0",
        category |-> "profile", scope |-> sc, importance |-> 50,
        tags |-> <<"t0">>, metadata |-> <<>>, vector |-> Some(V1) ]
      : sc \in ValidScopeArgs }

\* The record insert builds from its argument (db.ts:585-592).
NewRecord(memory, id, t) ==
    [ id |-> id,
      headline |-> memory.headline,
      summary |-> memory.summary,
      content |-> memory.content,
      category |-> memory.category,
      scope |-> memory.scope,
      importance |-> memory.importance,
      createdAt |-> t,
      updatedAt |-> t,
      accessCount |-> 0,
      lastAccessedAt |-> t,
      tags |-> memory.tags,
      metadata |-> memory.metadata,
      vector |-> memory.vector ]

\* The argument `updates` of update: each key is present with a value
\* (Some), or not present, or present with the value undefined, as in
\* { headline: input.headline } for an input without a headline; the keys of
\* the last kind are listed in undefinedKeys.
NoUpdates ==
    [ headline |-> None, summary |-> None, content |-> None,
      importance |-> None, tags |-> None, metadata |-> None, vector |-> None,
      undefinedKeys |-> {} ]

\* A content edit with its re-embedded vector (MemoryManager.update), an
\* importance edit without a vector, and a bare vector (reembed).
UpdateArgs ==
    { [NoUpdates EXCEPT !.content = Some("c1"), !.vector = Some(V2)],
      [NoUpdates EXCEPT !.importance = Some(90)],
      [NoUpdates EXCEPT !.vector = Some(V2)] }

\* { ...existing, ...updates, vector: updates.vector ?? existing.vector ?? [],
\*   updatedAt: Date.now() }   (db.ts:609-614)
\* A key of updates whose value is undefined overwrites the property of
\* existing: the record is left without a value for it.
SpreadUpdate(existing, updates, t) ==
    LET spread ==
            [ existing EXCEPT
                !.headline = IF updates.headline # None THEN updates.headline[1] ELSE @,
                !.summary = IF updates.summary # None THEN updates.summary[1] ELSE @,
                !.content = IF updates.content # None THEN updates.content[1] ELSE @,
                !.importance = IF updates.importance # None THEN updates.importance[1] ELSE @,
                !.tags = IF updates.tags # None THEN updates.tags[1] ELSE @,
                !.metadata = IF updates.metadata # None THEN updates.metadata[1] ELSE @,
                !.vector = Coalesce(Coalesce(updates.vector, existing.vector), Some(<<>>)),
                !.updatedAt = t ]
        supplied == { key \in DOMAIN updates \ {"vector", "undefinedKeys"} :
                        updates[key] # None }
        keys == (DOMAIN existing \cup supplied) \ updates.undefinedKeys
    IN  IF updates.undefinedKeys = {} /\ DOMAIN existing = RecordKeys THEN spread
        ELSE [key \in keys |->
                 IF key \in supplied THEN updates[key][1] ELSE spread[key]]

\* { ...existing, vector: existing.vector ?? [], accessCount: existing.accessCount + 1,
\*   lastAccessedAt: Date.now() }   (db.ts:690-695)
SpreadAccess(existing, t) ==
    [ existing EXCEPT
        !.vector = Coalesce(existing.vector, Some(<<>>)),
        !.accessCount = @ + 1,
        !.lastAccessedAt = t ]

\* Records a caller may hand to bulkInsert: a record of its own making, whose
\* id is any canonical UUID.
BulkRecord(id) == NewRecord(CHOOSE a \in InsertArgs : a.scope = "global", id, 0)

BulkArgs == { <<>>, <<BulkRecord("u1")>>, <<BulkRecord("u2")>> }

\* ------------------------------------------------------------------ engine

\* A row the table's schema describes: its vector is present and has the
\* dimensionality the table was created with.
WellFormed(row) ==
    /\ row.vector # None
    /\ Len(row.vector[1]) = Dimensions

\* table.query().where(`id = '...'`).toArray()
QueryById(rows, id) == SelectSeq(rows, LAMBDA r : r.id = id)

\* table.query().where(`scope = '...'`).toArray()
QueryByScope(rows, scope) == SelectSeq(rows, LAMBDA r : r.scope = scope)

\* DeleteById with the bug of deleting nothing.
DeleteByIdNothing(rows, id) == rows

\* table.delete(`id = '...'`)
DeleteById(rows, id) == SelectSeq(rows, LAMBDA r : r.id # id)

\* table.delete(`id IN (...)`)
DeleteByIds(rows, ids) ==
    SelectSeq(rows, LAMBDA r : \A i \in 1..Len(ids) : r.id # ids[i])

\* table.delete(`scope = '...'`)
DeleteWhereScope(rows, scope) == SelectSeq(rows, LAMBDA r : r.scope # scope)

\* The number of rows of `rows` with the id.
CountId(rows, id) == Len(QueryById(rows, id))

\* ------------------------------------------------------------------- state

VARIABLES
    tableExists,    \* the directory dbPath holds a table `memories`
    table,          \* the rows of the table, in the order the engine added them
    initPc,         \* where init() is: "new", "created" (sentinel row in), "done"
    initialized,    \* this.initialized
    ftsReady,       \* this.ftsReady
    writeLock,      \* this.writeLock: the promise at the tail of the write chain
    resolved,       \* the promises of the write chain that are resolved
    calls,          \* the method calls, in the order they were made
    now,            \* the clock Date.now() reads
    nextUuid,       \* index in UuidPool of the id uuidv4() returns next
    faults,         \* spontaneous engine failures so far
    probe,          \* the argument and the result of a pure function under test
    manager,        \* the MemoryManager method calls, each with its position
    factory,        \* getDB: the `instances` map, the TinmemDB objects, the callers
    retriever       \* MemoryRetriever.retrieve and its detached updateAccessCounts

\* The variables of the layers above the Store.
auxVars == <<probe, manager, factory, retriever>>

vars ==
    <<tableExists, table, initPc, initialized, ftsReady, writeLock, resolved,
      calls, now, nextUuid, faults, probe, manager, factory, retriever>>

Slots == 1..MaxCalls

\* The promise Promise.resolve() the chain starts with is 0; the promise
\* withWriteLock creates for call c is c.
InitialPromise == 0

IdleCall ==
    [ op |-> "none", pc |-> "idle",
      id |-> "", ids |-> <<>>, scope |-> None, categories |-> <<>>,
      updates |-> None, rows |-> <<>>, record |-> None,
      prev |-> InitialPromise, chained |-> FALSE,
      existing |-> None, rollbackRow |-> None, updated |-> None, before |-> 0,
      result |-> None, error |-> "",
      \* history: engine operations run for the call, the stored row the call
      \* read inside the lock, whether its add of the new row failed
      engineCalls |-> 0, pre |-> None, addFailed |-> FALSE ]

\* The row an earlier run of this program left in an existing table.
SeedRow == toRow(NewRecord(CHOOSE a \in InsertArgs : a.scope = "global", "u1", 0))

Init ==
    /\ tableExists \in BOOLEAN
    /\ table = IF tableExists THEN <<SeedRow>> ELSE <<>>
    /\ nextUuid = IF tableExists THEN 2 ELSE 1
    /\ initPc = "new"
    /\ initialized = FALSE
    /\ ftsReady = FALSE
    /\ writeLock = InitialPromise
    /\ resolved = {InitialPromise}
    /\ calls = [c \in Slots |-> IdleCall]
    /\ now = 0
    /\ faults = 0
    /\ probe = None
    /\ manager = None
    /\ factory = None
    /\ retriever = None

\* -------------------------------------------------------------------- init

\* init(), the table exists: openTable, ftsReady = true.
InitOpen ==
    /\ initPc = "new"
    /\ tableExists
    /\ initPc' = "done"
    /\ initialized' = TRUE
    /\ ftsReady' = TRUE
    /\ UNCHANGED <<auxVars, tableExists, table, writeLock, resolved, calls, now, nextUuid, faults>>

\* init(), no table: createTable with the dummy row.
InitCreate ==
    /\ initPc = "new"
    /\ ~tableExists
    /\ tableExists' = TRUE
    /\ table' = <<buildDummyRow(Dimensions)>>
    /\ initPc' = "created"
    /\ UNCHANGED <<auxVars, initialized, ftsReady, writeLock, resolved, calls, now,
                   nextUuid, faults>>

\* init(), after createTable: delete the sentinel row, ftsReady = false.
InitDeleteSentinel ==
    /\ initPc = "created"
    /\ table' = DeleteById(table, INIT_SENTINEL_ID)
    /\ ftsReady' = FALSE
    /\ initialized' = TRUE
    /\ initPc' = "done"
    /\ UNCHANGED <<auxVars, tableExists, writeLock, resolved, calls, now, nextUuid, faults>>

\* Time passes.
Tick ==
    /\ now < MaxClock
    /\ now' = now + 1
    /\ UNCHANGED <<auxVars, tableExists, table, initPc, initialized, ftsReady, writeLock,
                   resolved, calls, nextUuid, faults>>

\* ------------------------------------------------------------ call helpers

\* Calls are made in slot order: slot c is the c-th call of the behaviour.
NextSlot(c) ==
    /\ calls[c].pc = "idle"
    /\ \A d \in Slots : d < c => calls[d].pc # "idle"

NotInitialized == "TinmemDB not initialized. Call init() first."

\* The call threw msg.
Thrown(call, msg) == [call EXCEPT !.pc = "done", !.error = msg]

\* The call returned v.
Returned(call, v) == [call EXCEPT !.pc = "done", !.result = Some(v)]

Begin(op) == [IdleCall EXCEPT !.op = op]

\* ChainedCall with the bug of waiting for the promise the chain started
\* with instead of the current tail.
ChainedCallDetached(call) ==
    [call EXCEPT !.pc = "await_prev", !.prev = InitialPromise, !.chained = TRUE]

\* withWriteLock, up to `await prev`: prev = this.writeLock, and
\* this.writeLock becomes the new promise of the call.
ChainedCall(call) ==
    [call EXCEPT !.pc = "await_prev", !.prev = writeLock, !.chained = TRUE]

\* AwaitPrev with the bug of not awaiting.
AwaitPrevSkipped(prev) == TRUE

\* AwaitPrev with the bug of a chain that is released only when the body
\* returns (resolve() at the end of the try block instead of in finally).
AwaitPrevOfReturned(prev) ==
    /\ prev \in resolved
    /\ IF prev = InitialPromise THEN TRUE ELSE calls[prev].error = ""

\* `await prev` of withWriteLock: the call goes on once prev is resolved.
AwaitPrev(prev) == prev \in resolved

\* The first engine request fn() makes, per method.
FirstPc(op) ==
    CASE op \in {"insert", "bulkInsert"} -> "add"
      [] op \in {"update", "delete", "incrementAccessCount"} -> "getById"
      [] op = "deleteMany" -> "delete"
      [] op = "deleteByScope" -> "countByScope"

\* The call is inside fn() of withWriteLock.
InBody(call) ==
    /\ call.chained
    /\ call.pc \in {"add", "fts", "getById", "delete", "countByScope", "rollback"}

\* The engine may fail an add of well-formed rows spontaneously, a bounded
\* number of times; handed a row whose vector is absent or of another
\* length, it either rejects the add or stores the row as handed.
Malformed(rows) == \E i \in 1..Len(rows) : ~WellFormed(rows[i])

AddMayFail(rows) == Malformed(rows) \/ faults < MaxFaults

FaultsAfterFailedAdd(rows) == IF Malformed(rows) THEN faults ELSE faults + 1

AddFailed == "engine: add failed"

RollbackFailed == "engine: add of the rollback row failed"

\* ------------------------------------------------------------ withWriteLock

\* withWriteLock, `await prev` returns and fn() runs to its first await.
WithWriteLockEnter(c) ==
    /\ calls[c].pc = "await_prev"
    /\ AwaitPrev(calls[c].prev)
    /\ calls' = [calls EXCEPT ![c].pc = FirstPc(calls[c].op)]
    /\ UNCHANGED <<auxVars, tableExists, table, initPc, initialized, ftsReady, writeLock,
                   resolved, now, nextUuid, faults>>

\* ------------------------------------------------------------------ insert

\* insert(memory), up to `await prev`.
InsertCall(c) ==
    /\ NextSlot(c)
    /\ nextUuid <= Len(UuidPool)
    /\ \E memory \in InsertArgs :
          LET record == NewRecord(memory, UuidPool[nextUuid], now)
              call == [Begin("insert") EXCEPT !.record = Some(record),
                                              !.rows = <<toRow(record)>>]
          IN  IF ~initialized
              THEN /\ calls' = [calls EXCEPT ![c] = Thrown(Begin("insert"), NotInitialized)]
                   /\ UNCHANGED <<writeLock, nextUuid>>
              ELSE /\ calls' = [calls EXCEPT ![c] = ChainedCall(call)]
                   /\ writeLock' = c
                   /\ nextUuid' = nextUuid + 1
    /\ UNCHANGED <<auxVars, tableExists, table, initPc, initialized, ftsReady, resolved, now, faults>>

\* bulkInsert(records), up to `await prev`.
BulkInsertCall(c) ==
    /\ NextSlot(c)
    /\ \E records \in BulkArgs :
          LET call == [Begin("bulkInsert") EXCEPT
                          !.rows = [i \in 1..Len(records) |-> toRow(records[i])]]
          IN  IF ~initialized
              THEN /\ calls' = [calls EXCEPT ![c] = Thrown(Begin("bulkInsert"), NotInitialized)]
                   /\ UNCHANGED writeLock
              ELSE IF Len(records) = 0
              THEN /\ calls' = [calls EXCEPT ![c] = Returned(call, "undefined")]
                   /\ UNCHANGED writeLock
              ELSE /\ calls' = [calls EXCEPT ![c] = ChainedCall(call)]
                   /\ writeLock' = c
    /\ UNCHANGED <<auxVars, tableExists, table, initPc, initialized, ftsReady, resolved, now,
                   nextUuid, faults>>

\* insert and bulkInsert: table.add(rows) settles.
InsertAdd(c) ==
    LET call == calls[c]
        counted == [call EXCEPT !.engineCalls = @ + 1]
    IN  /\ call.op \in {"insert", "bulkInsert"}
        /\ call.pc = "add"
        /\ \/ /\ table' = table \o call.rows
              /\ calls' = [calls EXCEPT ![c] = [counted EXCEPT !.pc = "fts"]]
              /\ UNCHANGED <<resolved, faults>>
           \/ /\ AddMayFail(call.rows)
              /\ faults' = FaultsAfterFailedAdd(call.rows)
              /\ calls' = [calls EXCEPT ![c] = Thrown(counted, AddFailed)]
              /\ resolved' = resolved \cup {c}
              /\ UNCHANGED table
        /\ UNCHANGED <<auxVars, tableExists, initPc, initialized, ftsReady, writeLock, now, nextUuid>>

\* insert and bulkInsert: ensureFtsIndexes() and the return.
InsertFts(c) ==
    LET call == calls[c]
        counted == [call EXCEPT !.engineCalls = @ + (IF ftsReady THEN 0 ELSE 4)]
    IN  /\ call.op \in {"insert", "bulkInsert"}
        /\ call.pc = "fts"
        /\ ftsReady' = TRUE
        /\ calls' = [calls EXCEPT ![c] =
              IF call.op = "insert"
              THEN Returned(counted, fromRow(toRow(call.record[1])))
              ELSE Returned(counted, "undefined")]
        /\ resolved' = resolved \cup {c}
        /\ UNCHANGED <<auxVars, tableExists, table, initPc, initialized, writeLock, now,
                       nextUuid, faults>>

\* ------------------------------------------------------------------ update

\* update(id, updates), up to `await prev`.
UpdateCall(c) ==
    /\ NextSlot(c)
    /\ \E id \in IdArgs, updates \in UpdateArgs :
          LET call == [Begin("update") EXCEPT !.id = id, !.updates = Some(updates)]
          IN  IF ~initialized
              THEN /\ calls' = [calls EXCEPT ![c] = Thrown(Begin("update"), NotInitialized)]
                   /\ UNCHANGED writeLock
              ELSE IF ~assertUuid(id)
              THEN /\ calls' = [calls EXCEPT ![c] = Thrown(call, "Invalid UUID")]
                   /\ UNCHANGED writeLock
              ELSE /\ calls' = [calls EXCEPT ![c] = ChainedCall(call)]
                   /\ writeLock' = c
    /\ UNCHANGED <<auxVars, tableExists, table, initPc, initialized, ftsReady, resolved, now,
                   nextUuid, faults>>

\* update: getById settles; the updated record and the rollback row are
\* built and the delete is requested.
UpdateGetById(c) ==
    LET call == calls[c]
        counted == [call EXCEPT !.engineCalls = @ + 1]
        found == QueryById(table, call.id)
    IN  /\ call.op = "update"
        /\ call.pc = "getById"
        /\ IF found = <<>>
           THEN /\ calls' = [calls EXCEPT ![c] = Returned(counted, None)]
                /\ resolved' = resolved \cup {c}
           ELSE LET existing == fromRow(found[1])
                IN  /\ calls' = [calls EXCEPT ![c] =
                          [counted EXCEPT
                              !.pc = "delete",
                              !.pre = Some(found[1]),
                              !.existing = Some(existing),
                              !.updated = Some(SpreadUpdate(existing, call.updates[1], now)),
                              !.rollbackRow = Some(toRow(existing))]]
                    /\ UNCHANGED resolved
        /\ UNCHANGED <<auxVars, tableExists, table, initPc, initialized, ftsReady, writeLock, now,
                       nextUuid, faults>>

\* update: table.delete settles and the add of the updated row is requested.
UpdateDelete(c) ==
    LET call == calls[c]
    IN  /\ call.op = "update"
        /\ call.pc = "delete"
        /\ table' = DeleteById(table, call.id)
        /\ calls' = [calls EXCEPT ![c] = [call EXCEPT !.pc = "add", !.engineCalls = @ + 1]]
        /\ UNCHANGED <<auxVars, tableExists, initPc, initialized, ftsReady, writeLock, resolved,
                       now, nextUuid, faults>>

\* update: table.add([toRow(updated)]) settles.
UpdateAdd(c) ==
    LET call == calls[c]
        counted == [call EXCEPT !.engineCalls = @ + 1]
        rows == <<toRow(call.updated[1])>>
    IN  /\ call.op = "update"
        /\ call.pc = "add"
        /\ \/ /\ table' = table \o rows
              /\ calls' = [calls EXCEPT ![c] = Returned(counted, Some(fromRow(rows[1])))]
              /\ resolved' = resolved \cup {c}
              /\ UNCHANGED faults
           \/ /\ AddMayFail(rows)
              /\ faults' = FaultsAfterFailedAdd(rows)
              /\ calls' = [calls EXCEPT ![c] =
                    [counted EXCEPT !.pc = "rollback", !.addFailed = TRUE]]
              /\ UNCHANGED <<table, resolved>>
        /\ UNCHANGED <<auxVars, tableExists, initPc, initialized, ftsReady, writeLock, now, nextUuid>>

\* update and incrementAccessCount: table.add([rollbackRow]) settles and the
\* call throws.
RollbackAdd(c) ==
    LET call == calls[c]
        counted == [call EXCEPT !.engineCalls = @ + 1]
        rows == <<call.rollbackRow[1]>>
    IN  /\ call.op \in {"update", "incrementAccessCount"}
        /\ call.pc = "rollback"
        /\ \/ /\ table' = table \o rows
              /\ calls' = [calls EXCEPT ![c] = Thrown(counted, AddFailed)]
              /\ UNCHANGED faults
           \/ /\ AddMayFail(rows)
              /\ faults' = FaultsAfterFailedAdd(rows)
              /\ calls' = [calls EXCEPT ![c] = Thrown(counted, RollbackFailed)]
              /\ UNCHANGED table
        /\ resolved' = resolved \cup {c}
        /\ UNCHANGED <<auxVars, tableExists, initPc, initialized, ftsReady, writeLock, now, nextUuid>>

\* ---------------------------------------------------- incrementAccessCount

\* incrementAccessCount(id), up to `await prev`.
IncrementAccessCountCall(c) ==
    /\ NextSlot(c)
    /\ \E id \in IdArgs :
          LET call == [Begin("incrementAccessCount") EXCEPT !.id = id]
          IN  IF ~initialized
              THEN /\ calls' = [calls EXCEPT ![c] = Thrown(Begin("incrementAccessCount"), NotInitialized)]
                   /\ UNCHANGED writeLock
              ELSE IF ~assertUuid(id)
              THEN /\ calls' = [calls EXCEPT ![c] = Thrown(call, "Invalid UUID")]
                   /\ UNCHANGED writeLock
              ELSE /\ calls' = [calls EXCEPT ![c] = ChainedCall(call)]
                   /\ writeLock' = c
    /\ UNCHANGED <<auxVars, tableExists, table, initPc, initialized, ftsReady, resolved, now,
                   nextUuid, faults>>

\* incrementAccessCount: getById settles; the rollback row is built and the
\* delete is requested.
IncrementGetById(c) ==
    LET call == calls[c]
        counted == [call EXCEPT !.engineCalls = @ + 1]
        found == QueryById(table, call.id)
    IN  /\ call.op = "incrementAccessCount"
        /\ call.pc = "getById"
        /\ IF found = <<>>
           THEN /\ calls' = [calls EXCEPT ![c] = Returned(counted, "undefined")]
                /\ resolved' = resolved \cup {c}
           ELSE LET existing == fromRow(found[1])
                IN  /\ calls' = [calls EXCEPT ![c] =
                          [counted EXCEPT
                              !.pc = "delete",
                              !.pre = Some(found[1]),
                              !.existing = Some(existing),
                              !.rollbackRow = Some(toRow(existing))]]
                    /\ UNCHANGED resolved
        /\ UNCHANGED <<auxVars, tableExists, table, initPc, initialized, ftsReady, writeLock, now,
                       nextUuid, faults>>

\* incrementAccessCount: table.delete settles; the bumped record is built
\* and its add is requested.
IncrementDelete(c) ==
    LET call == calls[c]
    IN  /\ call.op = "incrementAccessCount"
        /\ call.pc = "delete"
        /\ table' = DeleteById(table, call.id)
        /\ calls' = [calls EXCEPT ![c] =
              [call EXCEPT !.pc = "add", !.engineCalls = @ + 1,
                           !.updated = Some(SpreadAccess(call.existing[1], now))]]
        /\ UNCHANGED <<auxVars, tableExists, initPc, initialized, ftsReady, writeLock, resolved,
                       now, nextUuid, faults>>

\* incrementAccessCount: table.add([toRow(updated)]) settles.
IncrementAdd(c) ==
    LET call == calls[c]
        counted == [call EXCEPT !.engineCalls = @ + 1]
        rows == <<toRow(call.updated[1])>>
    IN  /\ call.op = "incrementAccessCount"
        /\ call.pc = "add"
        /\ \/ /\ table' = table \o rows
              /\ calls' = [calls EXCEPT ![c] = Returned(counted, "undefined")]
              /\ resolved' = resolved \cup {c}
              /\ UNCHANGED faults
           \/ /\ AddMayFail(rows)
              /\ faults' = FaultsAfterFailedAdd(rows)
              /\ calls' = [calls EXCEPT ![c] =
                    [counted EXCEPT !.pc = "rollback", !.addFailed = TRUE]]
              /\ UNCHANGED <<table, resolved>>
        /\ UNCHANGED <<auxVars, tableExists, initPc, initialized, ftsReady, writeLock, now, nextUuid>>

\* ------------------------------------------------------------------ delete

\* delete(id), up to `await prev`.
DeleteCall(c) ==
    /\ NextSlot(c)
    /\ \E id \in IdArgs :
          LET call == [Begin("delete") EXCEPT !.id = id]
          IN  IF ~initialized
              THEN /\ calls' = [calls EXCEPT ![c] = Thrown(Begin("delete"), NotInitialized)]
                   /\ UNCHANGED writeLock
              ELSE IF ~assertUuid(id)
              THEN /\ calls' = [calls EXCEPT ![c] = Thrown(call, "Invalid UUID")]
                   /\ UNCHANGED writeLock
              ELSE /\ calls' = [calls EXCEPT ![c] = ChainedCall(call)]
                   /\ writeLock' = c
    /\ UNCHANGED <<auxVars, tableExists, table, initPc, initialized, ftsReady, resolved, now,
                   nextUuid, faults>>

\* delete: getById settles.
DeleteGetById(c) ==
    LET call == calls[c]
        counted == [call EXCEPT !.engineCalls = @ + 1]
        found == QueryById(table, call.id)
    IN  /\ call.op = "delete"
        /\ call.pc = "getById"
        /\ IF found = <<>>
           THEN /\ calls' = [calls EXCEPT ![c] = Returned(counted, FALSE)]
                /\ resolved' = resolved \cup {c}
           ELSE /\ calls' = [calls EXCEPT ![c] =
                      [counted EXCEPT !.pc = "delete", !.pre = Some(found[1]),
                                      !.existing = Some(fromRow(found[1]))]]
                /\ UNCHANGED resolved
        /\ UNCHANGED <<auxVars, tableExists, table, initPc, initialized, ftsReady, writeLock, now,
                       nextUuid, faults>>

\* delete: table.delete settles and the call returns true.
DeleteDelete(c) ==
    LET call == calls[c]
    IN  /\ call.op = "delete"
        /\ call.pc = "delete"
        /\ table' = DeleteById(table, call.id)
        /\ calls' = [calls EXCEPT ![c] = Returned([call EXCEPT !.engineCalls = @ + 1], TRUE)]
        /\ resolved' = resolved \cup {c}
        /\ UNCHANGED <<auxVars, tableExists, initPc, initialized, ftsReady, writeLock, now,
                       nextUuid, faults>>

\* The id lists a caller may pass to deleteMany.
IdsArgs == { <<>>, <<"u1">>, <<"u2", "u1">>, <<"u1", "inj">> }

\* deleteMany(ids), up to `await prev`.
DeleteManyCall(c) ==
    /\ NextSlot(c)
    /\ \E ids \in IdsArgs :
          LET call == [Begin("deleteMany") EXCEPT !.ids = ids]
          IN  IF ~initialized
              THEN /\ calls' = [calls EXCEPT ![c] = Thrown(Begin("deleteMany"), NotInitialized)]
                   /\ UNCHANGED writeLock
              ELSE IF Len(ids) = 0
              THEN /\ calls' = [calls EXCEPT ![c] = Returned(call, 0)]
                   /\ UNCHANGED writeLock
              ELSE IF \E i \in 1..Len(ids) : ~assertUuid(ids[i])
              THEN /\ calls' = [calls EXCEPT ![c] = Thrown(call, "Invalid UUID")]
                   /\ UNCHANGED writeLock
              ELSE /\ calls' = [calls EXCEPT ![c] = ChainedCall(call)]
                   /\ writeLock' = c
    /\ UNCHANGED <<auxVars, tableExists, table, initPc, initialized, ftsReady, resolved, now,
                   nextUuid, faults>>

\* deleteMany: table.delete(`id IN (...)`) settles; the call returns ids.length.
DeleteManyDelete(c) ==
    LET call == calls[c]
    IN  /\ call.op = "deleteMany"
        /\ call.pc = "delete"
        /\ table' = DeleteByIds(table, call.ids)
        /\ calls' = [calls EXCEPT ![c] =
              Returned([call EXCEPT !.engineCalls = @ + 1], Len(call.ids))]
        /\ resolved' = resolved \cup {c}
        /\ UNCHANGED <<auxVars, tableExists, initPc, initialized, ftsReady, writeLock, now,
                       nextUuid, faults>>

\* deleteByScope(scope), up to `await prev`.
DeleteByScopeCall(c) ==
    /\ NextSlot(c)
    /\ \E scope \in ScopeArgs :
          LET call == [Begin("deleteByScope") EXCEPT !.scope = Some(scope)]
          IN  IF ~initialized
              THEN /\ calls' = [calls EXCEPT ![c] = Thrown(Begin("deleteByScope"), NotInitialized)]
                   /\ UNCHANGED writeLock
              ELSE IF ~assertScope(scope)
              THEN /\ calls' = [calls EXCEPT ![c] = Thrown(call, "Invalid memory scope")]
                   /\ UNCHANGED writeLock
              ELSE /\ calls' = [calls EXCEPT ![c] = ChainedCall(call)]
                   /\ writeLock' = c
    /\ UNCHANGED <<auxVars, tableExists, table, initPc, initialized, ftsReady, resolved, now,
                   nextUuid, faults>>

\* deleteByScope: countByScope settles and the delete is requested.
DeleteByScopeCount(c) ==
    LET call == calls[c]
    IN  /\ call.op = "deleteByScope"
        /\ call.pc = "countByScope"
        /\ calls' = [calls EXCEPT ![c] =
              [call EXCEPT !.pc = "delete", !.engineCalls = @ + 1,
                           !.before = Len(QueryByScope(table, call.scope[1]))]]
        /\ UNCHANGED <<auxVars, tableExists, table, initPc, initialized, ftsReady, writeLock,
                       resolved, now, nextUuid, faults>>

\* deleteByScope: table.delete settles; the call returns the earlier count.
DeleteByScopeDelete(c) ==
    LET call == calls[c]
    IN  /\ call.op = "deleteByScope"
        /\ call.pc = "delete"
        /\ table' = DeleteWhereScope(table, call.scope[1])
        /\ calls' = [calls EXCEPT ![c] =
              Returned([call EXCEPT !.engineCalls = @ + 1], call.before)]
        /\ resolved' = resolved \cup {c}
        /\ UNCHANGED <<auxVars, tableExists, initPc, initialized, ftsReady, writeLock, now,
                       nextUuid, faults>>

\* ------------------------------------------------------------------- reads

\* getById(id) called from outside the write chain, up to its query.
GetByIdCall(c) ==
    /\ NextSlot(c)
    /\ \E id \in IdArgs :
          LET call == [Begin("getById") EXCEPT !.id = id]
          IN  calls' = [calls EXCEPT ![c] =
                IF ~initialized THEN Thrown(Begin("getById"), NotInitialized)
                ELSE IF ~assertUuid(id) THEN Thrown(call, "Invalid UUID")
                ELSE [call EXCEPT !.pc = "query"]]
    /\ UNCHANGED <<auxVars, tableExists, table, initPc, initialized, ftsReady, writeLock,
                   resolved, now, nextUuid, faults>>

\* getById: the query settles.
GetByIdQuery(c) ==
    LET call == calls[c]
        counted == [call EXCEPT !.engineCalls = @ + 1]
        found == QueryById(table, call.id)
    IN  /\ call.op = "getById"
        /\ call.pc = "query"
        /\ calls' = [calls EXCEPT ![c] =
              Returned(counted, IF found = <<>> THEN None ELSE Some(fromRow(found[1])))]
        /\ UNCHANGED <<auxVars, tableExists, table, initPc, initialized, ftsReady, writeLock,
                       resolved, now, nextUuid, faults>>

\* countByScope(scope) called from outside the write chain, up to its query.
CountByScopeCall(c) ==
    /\ NextSlot(c)
    /\ \E scope \in ScopeArgs :
          LET call == [Begin("countByScope") EXCEPT !.scope = Some(scope)]
          IN  calls' = [calls EXCEPT ![c] =
                IF ~initialized THEN Thrown(Begin("countByScope"), NotInitialized)
                ELSE IF ~assertScope(scope) THEN Thrown(call, "Invalid memory scope")
                ELSE [call EXCEPT !.pc = "query"]]
    /\ UNCHANGED <<auxVars, tableExists, table, initPc, initialized, ftsReady, writeLock,
                   resolved, now, nextUuid, faults>>

\* countByScope: the query settles.
CountByScopeQuery(c) ==
    LET call == calls[c]
    IN  /\ call.op = "countByScope"
        /\ call.pc = "query"
        /\ calls' = [calls EXCEPT ![c] =
              Returned([call EXCEPT !.engineCalls = @ + 1],
                       Len(QueryByScope(table, call.scope[1])))]
        /\ UNCHANGED <<auxVars, tableExists, table, initPc, initialized, ftsReady, writeLock,
                       resolved, now, nextUuid, faults>>

\* The filter options of vectorSearch, fullTextSearch and list: options.scope
\* (one scope, or absent) and options.categories.
ScopeOptions == {None} \cup { Some(sc) : sc \in ScopeArgs \ {"agent:a"} }

CategoriesOptions == { <<>>, <<"profile">>, <<"Profile">> }

\* `if (options.scope)`: the scope is given and is not the empty string.
ScopeGiven(scope) == scope # None /\ scope[1] # ""

\* The error the filter composition throws ("" when it throws none): the
\* scopes are validated first, then the categories.
FilterError(scope, categories) ==
    IF ScopeGiven(scope) /\ ~assertScope(scope[1])
    THEN "Invalid memory scope"
    ELSE IF \E i \in 1..Len(categories) : ~assertCategory(categories[i])
    THEN "Invalid memory category"
    ELSE ""

\* The rows the composed predicate selects.
Filtered(rows, scope, categories) ==
    SelectSeq(rows, LAMBDA r :
        /\ ScopeGiven(scope) => r.scope = scope[1]
        /\ Len(categories) > 0 => \E i \in 1..Len(categories) : r.category = categories[i])

Ids(rows) == [i \in 1..Len(rows) |-> rows[i].id]

\* vectorSearch and list, up to the query: an invalid filter throws.
SearchCall(c) ==
    /\ NextSlot(c)
    /\ \E op \in {"vectorSearch", "list"}, scope \in ScopeOptions,
          categories \in CategoriesOptions :
          LET call == [Begin(op) EXCEPT !.scope = scope, !.categories = categories]
          IN  calls' = [calls EXCEPT ![c] =
                IF ~initialized THEN Thrown(Begin(op), NotInitialized)
                ELSE IF FilterError(scope, categories) # ""
                THEN Thrown(call, FilterError(scope, categories))
                ELSE [call EXCEPT !.pc = "query"]]
    /\ UNCHANGED <<auxVars, tableExists, table, initPc, initialized, ftsReady, writeLock,
                   resolved, now, nextUuid, faults>>

\* fullTextSearch, up to the query: the whole body is inside try/catch, and
\* an error the filter composition throws is caught and [] returned.
FullTextSearchCall(c) ==
    /\ NextSlot(c)
    /\ \E scope \in ScopeOptions, categories \in CategoriesOptions :
          LET call == [Begin("fullTextSearch") EXCEPT
                          !.scope = scope, !.categories = categories]
          IN  calls' = [calls EXCEPT ![c] =
                IF ~initialized THEN Thrown(Begin("fullTextSearch"), NotInitialized)
                ELSE IF FilterError(scope, categories) # ""
                THEN Returned(call, <<>>)
                ELSE [call EXCEPT !.pc = "query"]]
    /\ UNCHANGED <<auxVars, tableExists, table, initPc, initialized, ftsReady, writeLock,
                   resolved, now, nextUuid, faults>>

\* vectorSearch, fullTextSearch and list: the query settles.  The result is
\* the ids of the selected rows; a full-text query the engine fails (no
\* index yet) returns [].
SearchQuery(c) ==
    LET call == calls[c]
        counted == [call EXCEPT !.engineCalls = @ + 1]
        hits == Ids(Filtered(table, call.scope, call.categories))
    IN  /\ call.op \in {"vectorSearch", "list", "fullTextSearch"}
        /\ call.pc = "query"
        /\ \/ calls' = [calls EXCEPT ![c] = Returned(counted, hits)]
           \/ /\ call.op = "fullTextSearch"
              /\ ~ftsReady
              /\ calls' = [calls EXCEPT ![c] = Returned(counted, <<>>)]
        /\ UNCHANGED <<auxVars, tableExists, table, initPc, initialized, ftsReady, writeLock,
                       resolved, now, nextUuid, faults>>

\* ------------------------------------------------------------ specification

Next ==
    \/ InitOpen
    \/ InitCreate
    \/ InitDeleteSentinel
    \/ Tick
    \/ \E c \in Slots :
          \/ WithWriteLockEnter(c)
          \/ InsertCall(c)
          \/ BulkInsertCall(c)
          \/ InsertAdd(c)
          \/ InsertFts(c)
          \/ UpdateCall(c)
          \/ UpdateGetById(c)
          \/ UpdateDelete(c)
          \/ UpdateAdd(c)
          \/ RollbackAdd(c)
          \/ IncrementAccessCountCall(c)
          \/ IncrementGetById(c)
          \/ IncrementDelete(c)
          \/ IncrementAdd(c)
          \/ DeleteCall(c)
          \/ DeleteGetById(c)
          \/ DeleteDelete(c)
          \/ DeleteManyCall(c)
          \/ DeleteManyDelete(c)
          \/ DeleteByScopeCall(c)
          \/ DeleteByScopeCount(c)
          \/ DeleteByScopeDelete(c)
          \/ GetByIdCall(c)
          \/ GetByIdQuery(c)
          \/ CountByScopeCall(c)
          \/ CountByScopeQuery(c)
          \/ SearchCall(c)
          \/ FullTextSearchCall(c)
          \/ SearchQuery(c)

Spec == Init /\ [][Next]_vars

\* ------------------------------------- specification of the predicate strings

\* The characters of the input strings: the quote, a letter, and two
\* characters an injection uses.
EscAlphabet == {"'", "a", ";", " "}

RECURSIVE StringsUpTo(_)
\* All strings over EscAlphabet of length at most n.
StringsUpTo(n) ==
    IF n = 0 THEN { <<>> }
    ELSE LET shorter == StringsUpTo(n - 1)
         IN  shorter \cup { Append(t, ch) : t \in shorter, ch \in EscAlphabet }

\* A second literal, for the predicates that take several.
OtherLiteral == <<"b", "'">>

InitEsc ==
    /\ tableExists = FALSE
    /\ table = <<>>
    /\ nextUuid = 1
    /\ initPc = "new"
    /\ initialized = FALSE
    /\ ftsReady = FALSE
    /\ writeLock = InitialPromise
    /\ resolved = {InitialPromise}
    /\ calls = [c \in Slots |-> IdleCall]
    /\ now = 0
    /\ faults = 0
    /\ manager = None
    /\ factory = None
    /\ retriever = None
    /\ \E s \in StringsUpTo(MaxLen) :
          probe = [literals |-> <<s>>, form |-> "none", predicate |-> None]

dbVars ==
    <<tableExists, table, initPc, initialized, ftsReady, writeLock, resolved,
      calls, now, nextUuid, faults>>

\* The predicate of getById, update, delete and incrementAccessCount.
ComposeId ==
    /\ probe.form = "none"
    /\ probe' = [probe EXCEPT !.form = "id",
                              !.predicate = Some(IdPredicate(probe.literals[1]))]
    /\ UNCHANGED <<dbVars, manager, factory, retriever>>

\* The predicate of deleteByScope and countByScope.
ComposeScope ==
    /\ probe.form = "none"
    /\ probe' = [probe EXCEPT !.form = "scope",
                              !.predicate = Some(ScopePredicate(probe.literals[1]))]
    /\ UNCHANGED <<dbVars, manager, factory, retriever>>

\* The predicate of deleteMany, with two ids.
ComposeIdIn ==
    /\ probe.form = "none"
    /\ LET ids == <<probe.literals[1], OtherLiteral>>
       IN  probe' = [literals |-> ids, form |-> "idIn",
                     predicate |-> Some(IdInPredicate(ids))]
    /\ UNCHANGED <<dbVars, manager, factory, retriever>>

\* The filter of vectorSearch, fullTextSearch and list, with two scopes and
\* one category.
ComposeFilter ==
    /\ probe.form = "none"
    /\ LET scopes == <<OtherLiteral, probe.literals[1]>>
           categories == <<probe.literals[1]>>
       IN  probe' = [literals |-> scopes \o categories, form |-> "filter",
                     predicate |-> Some(FilterPredicate(scopes, categories))]
    /\ UNCHANGED <<dbVars, manager, factory, retriever>>

NextEsc ==
    \/ ComposeId
    \/ ComposeScope
    \/ ComposeIdIn
    \/ ComposeFilter

SpecEsc == InitEsc /\ [][NextEsc]_vars

\* ------------------------------------------------------------------ claims

\* The methods that go through withWriteLock.
WriteOps ==
    {"insert", "update", "delete", "deleteMany", "deleteByScope",
     "incrementAccessCount", "bulkInsert"}

\* C1: at most one write critical section executes at any time: for every
\* interleaving of insert, update, delete, deleteMany, deleteByScope,
\* incrementAccessCount and bulkInsert calls, no two calls are inside the body
\* of their write at once.
C1_MutualExclusion ==
    \A c, d \in Slots :
        (c # d /\ InBody(calls[c])) => ~InBody(calls[d])

\* A write is in the middle of its body, having run an engine operation,
\* while a later write waits for it.
C1_Witness ==
    \E c, d \in Slots :
        /\ InBody(calls[c])
        /\ calls[c].engineCalls > 0
        /\ calls[d].op \in WriteOps
        /\ calls[d].pc = "await_prev"

\* The call added the row toRow(call.updated) and returned.
Wrote(call) ==
    /\ call.op \in {"update", "incrementAccessCount"}
    /\ call.pc = "done"
    /\ call.error = ""
    /\ call.updated # None

\* C2: writes run in the order of their calls: when write a was called before
\* write b, b's body does not begin before a's has finished or thrown, and
\* the row b reads inside the lock is the row a wrote (when no other write
\* was called between them).
C2_Fifo ==
    \A a, b \in Slots :
        (a < b /\ calls[a].chained /\ calls[b].chained /\ calls[b].pc # "await_prev")
        => /\ calls[a].pc = "done"
           /\ ( /\ Wrote(calls[a])
                /\ calls[b].op \in {"update", "delete", "incrementAccessCount"}
                /\ calls[b].id = calls[a].id
                /\ calls[b].pc # "getById"
                /\ \A m \in Slots : (a < m /\ m < b) => ~calls[m].chained )
              => calls[b].pre = Some(toRow(calls[a].updated[1]))

\* Two writes of the same id, made one after the other, have both finished
\* and the second one read the row the first one wrote.
C2_Witness ==
    \E a, b \in Slots :
        /\ a < b
        /\ Wrote(calls[a])
        /\ calls[b].op \in {"update", "delete", "incrementAccessCount"}
        /\ calls[b].id = calls[a].id
        /\ calls[b].pc = "done"
        /\ calls[b].pre = Some(toRow(calls[a].updated[1]))

\* The call is an update or an access-count bump of the seed row's id.
BumpOrEdit(call) ==
    /\ call.op \in {"update", "incrementAccessCount"}
    /\ call.id = SeedRow.id

\* The incrementAccessCount calls that returned without an error.
SuccessfulBumps ==
    { c \in Slots : /\ calls[c].op = "incrementAccessCount"
                    /\ calls[c].pc = "done"
                    /\ calls[c].error = "" }

\* C3: when every call is an update or an incrementAccessCount of the same
\* existing id and all calls have settled, exactly one row with that id
\* exists and its accessCount is the initial accessCount plus the number of
\* incrementAccessCount calls that succeeded.  Stated for the runs in which
\* the engine never fails a well-formed add.
C3_OneRowAllBumpsCounted ==
    ( /\ \A c \in Slots : BumpOrEdit(calls[c]) /\ calls[c].pc = "done"
      /\ calls[1].pre # None
      /\ faults = 0 )
    => /\ CountId(table, SeedRow.id) = 1
       /\ QueryById(table, SeedRow.id)[1].accessCount
             = SeedRow.accessCount + Cardinality(SuccessfulBumps)

\* No two rows of the table share an id.
UniqueIds ==
    \A i, j \in 1..Len(table) : i # j => table[i].id # table[j].id

\* C4: in every reachable state no two rows share an id, and when every
\* call is an insert that returned, the table holds one complete row per id
\* that uuidv4() handed out (the rows it held before, plus one per insert).
C4_InsertsAddUniqueRows ==
    /\ UniqueIds
    /\ ( \A c \in Slots : /\ calls[c].op = "insert"
                          /\ calls[c].pc = "done"
                          /\ calls[c].error = "" )
       => /\ Len(table) = nextUuid - 1
          /\ \A i \in 1..Len(table) : WellFormed(table[i])

\* C5: when the add of the new row failed in update or incrementAccessCount,
\* the step that ends the call leaves exactly one row with the id, equal to
\* the row the call read (its vector included), and the call throws the
\* error of the failed add.
C5_RollbackRestoresRow ==
    [][ \A c \in Slots :
          ( /\ calls[c].op \in {"update", "incrementAccessCount"}
            /\ calls[c].pc = "rollback"
            /\ calls'[c].pc = "done" )
          => /\ CountId(table', calls[c].id) = 1
             /\ QueryById(table', calls[c].id)[1] = calls[c].pre[1]
             /\ calls'[c].error = AddFailed ]_vars

\* C6: when update returns a record, exactly one row with the id exists;
\* when delete returns true, no row with the id exists.
C6_UpdateOneDeleteZero ==
    [][ \A c \in Slots :
          ( /\ calls[c].pc # "done"
            /\ calls'[c].pc = "done"
            /\ calls'[c].error = "" )
          => /\ ( calls[c].op = "update" /\ calls'[c].result[1] # None )
                => CountId(table', calls[c].id) = 1
             /\ ( calls[c].op = "delete" /\ calls'[c].result[1] )
                => CountId(table', calls[c].id) = 0 ]_vars

\* An update has returned a record and a delete has returned true.
C6_Witness ==
    \E c, d \in Slots :
        /\ calls[c].op = "update" /\ calls[c].pc = "done" /\ calls[c].error = ""
        /\ calls[c].result[1] # None
        /\ calls[d].op = "delete" /\ calls[d].pc = "done" /\ calls[d].error = ""
        /\ calls[d].result[1]

\* The methods that validate an id.
IdOps == {"getById", "update", "delete", "deleteMany", "incrementAccessCount"}

\* The call was given an id that is not a canonical UUID.
HasInvalidId(call) ==
    \/ call.id \in InvalidIdArgs
    \/ \E i \in 1..Len(call.ids) : call.ids[i] \in InvalidIdArgs

\* C7: getById, update, delete, deleteMany and incrementAccessCount called
\* (on an initialised store) with an id that is not a canonical UUID throw
\* "Invalid UUID" at once: no engine operation is run for the call, the call
\* is not placed on the write chain, and the table is unchanged.
C7_InvalidIdRejected ==
    [][ \A c \in Slots :
          ( /\ initialized
            /\ calls[c].pc = "idle"
            /\ calls'[c].pc # "idle"
            /\ calls'[c].op \in IdOps
            /\ HasInvalidId(calls'[c]) )
          => /\ calls'[c].pc = "done"
             /\ calls'[c].error = "Invalid UUID"
             /\ calls'[c].engineCalls = 0
             /\ ~calls'[c].chained
             /\ writeLock' = writeLock
             /\ table' = table ]_vars

\* A call with an invalid id has thrown "Invalid UUID" while the table holds
\* a row.
C7_Witness ==
    \E c \in Slots :
        /\ calls[c].op \in IdOps
        /\ HasInvalidId(calls[c])
        /\ calls[c].pc = "done"
        /\ calls[c].error = "Invalid UUID"
        /\ Len(table) > 0

\* The methods that validate a scope or a category.
FilterOps == {"vectorSearch", "fullTextSearch", "list", "deleteByScope", "countByScope"}

\* The call was given a scope (other than the empty string, which the
\* searches take as no scope) that does not match the scope grammar, or a
\* category outside the closed set.
HasInvalidFilter(call) ==
    \/ call.scope # None /\ call.scope[1] \in InvalidScopeArgs \ {""}
    \/ \E i \in 1..Len(call.categories) : call.categories[i] \in InvalidCategoryArgs

\* C8: vectorSearch, fullTextSearch, list, deleteByScope and countByScope
\* called with an invalid scope or category throw an invalid-argument error
\* before any engine operation is run.
C8_InvalidFilterRejected ==
    \A c \in Slots :
        ( calls[c].op \in FilterOps /\ HasInvalidFilter(calls[c]) )
        => /\ calls[c].pc = "done"
           /\ calls[c].error \in {"Invalid memory scope", "Invalid memory category"}
           /\ calls[c].engineCalls = 0

RECURSIVE LexFrom(_, _, _, _, _, _)
\* The predicate text t read as SQL from position i: a quote opens a string
\* literal, inside a literal two quotes stand for one and a single quote
\* closes it.  The result has the literals read and the text around them,
\* with ? for each literal; ok is FALSE when a literal is left open.
LexFrom(t, i, inLiteral, current, literals, rest) ==
    IF i > Len(t)
    THEN [ok |-> ~inLiteral, literals |-> literals, rest |-> rest]
    ELSE IF ~inLiteral
    THEN IF t[i] = "'"
         THEN LexFrom(t, i + 1, TRUE, <<>>, literals, rest)
         ELSE LexFrom(t, i + 1, FALSE, <<>>, literals, Append(rest, t[i]))
    ELSE IF t[i] # "'"
    THEN LexFrom(t, i + 1, TRUE, Append(current, t[i]), literals, rest)
    ELSE IF i < Len(t) /\ t[i + 1] = "'"
    THEN LexFrom(t, i + 2, TRUE, Append(current, "'"), literals, rest)
    ELSE LexFrom(t, i + 1, FALSE, <<>>, Append(literals, current), Append(rest, "?"))

Lex(t) == LexFrom(t, 1, FALSE, <<>>, <<>>, <<>>)

\* The text of each predicate form around its literals.
Skeleton(form) ==
    CASE form = "id" -> <<"i","d"," ","="," ","?">>
      [] form = "scope" -> <<"s","c","o","p","e"," ","="," ","?">>
      [] form = "idIn" -> <<"i","d"," ","I","N"," ","(","?",","," ","?",")">>
      [] form = "filter" ->
            <<"(","s","c","o","p","e"," ","="," ","?"," ","O","R"," ",
              "s","c","o","p","e"," ","="," ","?",")"," ","A","N","D"," ",
              "(","c","a","t","e","g","o","r","y"," ","="," ","?",")">>

\* C9: every predicate string has each literal enclosed in single quotes with
\* every quote inside it doubled and nothing else changed: read as SQL, the
\* predicate has exactly the literals that were put in, as they were, and
\* the fixed text around them.
C9_LiteralsQuotedAndEscaped ==
    probe.form # "none"
    => LET read == Lex(probe.predicate[1])
       IN  /\ read.ok
           /\ read.literals = probe.literals
           /\ read.rest = Skeleton(probe.form)

\* A filter predicate has been composed from a literal that holds a quote
\* and a semicolon.
C9_Witness ==
    /\ probe.form = "filter"
    /\ probe.literals[2] = <<"'", ";">>

\* C10: every row of the table has a vector whose length is the configured
\* dimensionality.
C10_VectorsHaveDimension ==
    \A i \in 1..Len(table) : WellFormed(table[i])

\* ===================================================== the MemoryManager
\*
\* The layers above the Store: the extractor's validation, the deduplicator
\* and the MemoryManager (manager.ts).  A manager call advances one await at
\* a time.  The body of a TinmemDB write runs under the write chain, alone
\* (C1), so here a Store method is one step.  Scores, thresholds and
\* importance are in hundredths.

\* config.defaultScope
defaultScope == "global"
\* config.deduplication.similarityThreshold
similarityThreshold == 85
\* config.deduplication.llmThreshold
llmThreshold == 90
\* config.deduplication.strategy
Strategies == {"llm", "vector", "both"}

\* APPEND_ONLY_CATEGORIES with the bug of leaving out cases.
APPEND_ONLY_WithoutCases == {"events"}

\* Append-only categories always CREATE
APPEND_ONLY_CATEGORIES == {"events", "cases"}

\* What a template literal writes for the property `key` of m: its text, or
\* "undefined" when m has no value for it.
TemplateText(m, key) == IF key \in DOMAIN m THEN m[key] ELSE "undefined"

\* `${headline}\n${summary}\n${content}`
EmbedText(headline, summary, content) ==
    headline \o "\n" \o summary \o "\n" \o content

\* embedding.embed(text): the service is deterministic; its vector has the
\* configured dimensionality and determines the text.
embed(text) == [i \in 1..Dimensions |-> text]

\* Texts the embedding service places close to each other.
DarkModeTexts ==
    { "User prefers dark mode",
      "The user likes dark themes",
      EmbedText("Dark themes", "Likes dark themes", "The user likes dark themes") }

\* 1 - _distance for the engine's cosine distance between the query vector
\* and the vector of a row: equal vectors score 1, vectors of close texts
\* 0.88, other vectors 0.20; a row without a usable vector has no distance,
\* which vectorSearch reads as 1.
VectorScore(queryVector, row) ==
    IF ~WellFormed(row) THEN 0
    ELSE IF row.vector[1] = queryVector THEN 100
    ELSE IF row.vector[1][1] \in DarkModeTexts /\ queryVector[1] \in DarkModeTexts THEN 88
    ELSE 20

RECURSIVE NearestFirst(_, _)
\* The engine's answer to a vector query: the rows by ascending distance.
NearestFirst(rows, queryVector) ==
    IF rows = <<>> THEN <<>>
    ELSE LET best == CHOOSE i \in 1..Len(rows) :
                        \A j \in 1..Len(rows) :
                            \/ VectorScore(queryVector, rows[j]) < VectorScore(queryVector, rows[i])
                            \/ /\ VectorScore(queryVector, rows[j]) = VectorScore(queryVector, rows[i])
                               /\ i <= j
         IN  <<rows[best]>> \o
             NearestFirst(SubSeq(rows, 1, best - 1) \o SubSeq(rows, best + 1, Len(rows)),
                          queryVector)

\* array.slice(0, n)
Slice(seq, n) == IF Len(seq) <= n THEN seq ELSE SubSeq(seq, 1, n)

\* TinmemDB.vectorSearch once its filter is valid: over-fetch, map each row
\* to fromRow(row) with its _distance, drop the rows under minScore, slice.
\* options.minScore is None or Some(score); `!options.minScore` also holds
\* for a minScore of 0.
vectorSearch(rows, queryVector, options) ==
    LET fetched == Slice(NearestFirst(Filtered(rows, options.scope, options.categories),
                                      queryVector),
                         options.limit * 3)
        mapped == [i \in 1..Len(fetched) |->
                      [memory |-> fromRow(fetched[i]),
                       distance |-> 100 - VectorScore(queryVector, fetched[i])]]
        kept == SelectSeq(mapped, LAMBDA r :
                    \/ options.minScore = None
                    \/ options.minScore[1] = 0
                    \/ 100 - r.distance >= options.minScore[1])
    IN  Slice(kept, options.limit)

\* The options deduplicate passes to vectorSearch.
DedupSearchOptions(candidate, scope) ==
    [limit |-> 5, scope |-> Some(scope), categories |-> <<candidate.category>>,
     minScore |-> Some(similarityThreshold - 10)]

\* vectorCandidates.filter(vc => 1 - vc._distance >= threshold)
highConfidenceMatches(vectorCandidates) ==
    SelectSeq(vectorCandidates, LAMBDA vc : 100 - vc.distance >= similarityThreshold)

RECURSIVE Unique(_)
\* [...new Set(tags)]: the first occurrence of each element, in order.
Unique(seq) ==
    IF seq = <<>> THEN <<>>
    ELSE LET front == Unique(SubSeq(seq, 1, Len(seq) - 1))
             last == seq[Len(seq)]
         IN  IF \E i \in 1..Len(front) : front[i] = last THEN front
             ELSE Append(front, last)

\* A DedupResult: the merged fields are present (Some) or not; reason is ""
\* when there is none.
DedupResult(decision) ==
    [decision |-> decision, targetId |-> None, mergedHeadline |-> None,
     mergedSummary |-> None, mergedContent |-> None, mergedTags |-> None,
     reason |-> ""]

\* { decision, reason }
Decided(decision, reason) == [DedupResult(decision) EXCEPT !.reason = reason]

\* A merge that keeps the headline of the stored memory.
VectorMergeOldHeadline(best, candidate) ==
    [decision |-> "MERGE",
     targetId |-> Some(best.id),
     mergedHeadline |-> Some(best.headline),
     mergedSummary |-> Some(best.summary \o "\n\nUpdate: " \o candidate.summary),
     mergedContent |-> Some(best.content \o "\n\n---\n\n" \o candidate.content),
     mergedTags |-> Some(Unique(best.tags \o candidate.tags)),
     reason |-> "Vector similarity >= threshold"]

\* deduplicate, strategy 'vector': auto-merge with the best match.
VectorMerge(best, candidate) ==
    [decision |-> "MERGE",
     targetId |-> Some(best.id),
     mergedHeadline |-> Some(candidate.headline),
     mergedSummary |-> Some(best.summary \o "\n\nUpdate: " \o candidate.summary),
     mergedContent |-> Some(best.content \o "\n\n---\n\n" \o candidate.content),
     mergedTags |-> Some(Unique(best.tags \o candidate.tags)),
     reason |-> "Vector similarity >= threshold"]

\* ---------------------------------------------------------------- extractor

\* string.trim(), for the strings of the model.
trim(text) ==
    CASE text = " Dark themes " -> "Dark themes"
      [] OTHER -> text

\* Math.max(0, Math.min(1, x))
Clamp01(x) == IF x < 0 THEN 0 ELSE IF x > 100 THEN 100 ELSE x

\* Items of the array the LLM answers with.  A field that is not of the
\* type validateExtracted tests for is None.
DarkItem ==
    [ headline |-> Some(" Dark themes "), summary |-> Some("Likes dark themes"),
      content |-> Some("The user likes dark themes"), category |-> Some("preferences"),
      importance |-> Some(150), tags |-> Some(<<"editor", "ui">>), metadata |-> None ]

LeakItem ==
    [ headline |-> Some("Leak"), summary |-> Some("Leak fixed"),
      content |-> Some("Fixed a memory leak in component X."), category |-> Some("cases"),
      importance |-> None, tags |-> None, metadata |-> None ]

BadCategoryItem == [DarkItem EXCEPT !.category = Some("Profile")]

NoSummaryItem == [LeakItem EXCEPT !.summary = None]

\* What the LLM may answer to an extraction prompt (an answer that does not
\* parse, or an error, gives []).
RawResponses ==
    { <<>>, <<BadCategoryItem, DarkItem>>, <<NoSummaryItem, LeakItem>> }

\* MemoryExtractor.validateExtracted
validateExtracted(raw) ==
    LET valid == SelectSeq(raw, LAMBDA m :
                    /\ m.headline # None
                    /\ m.summary # None
                    /\ m.content # None
                    /\ m.category # None
                    /\ m.category[1] \in VALID_CATEGORIES)
    IN  [i \in 1..Len(valid) |->
            [ headline |-> trim(valid[i].headline[1]),
              summary |-> trim(valid[i].summary[1]),
              content |-> trim(valid[i].content[1]),
              category |-> valid[i].category[1],
              importance |-> IF valid[i].importance # None
                             THEN Clamp01(valid[i].importance[1]) ELSE 50,
              tags |-> IF valid[i].tags # None THEN valid[i].tags[1] ELSE <<>>,
              metadata |-> IF valid[i].metadata # None THEN valid[i].metadata[1] ELSE <<>> ]]

\* ------------------------------------------------- the Store, one step a call

\* TinmemDB.insert's body: the table after the add of toRow(record).
InsertedTable(rows, record) == rows \o <<toRow(record)>>

\* TinmemDB.update(id, updates) at time t, as the set of its outcomes: the
\* table it leaves, what it returns (Some(null) is Some(None)) or the error
\* it throws, and whether the engine failed of its own.  An add of a
\* malformed row, or of a row without a value for a column, is rejected or
\* stored, as in UpdateAdd and RollbackAdd.
UpdateOutcomes(rows, id, updates, t, mayFault) ==
    IF ~assertUuid(id)
    THEN { [table |-> rows, result |-> None, error |-> "Invalid UUID", fault |-> FALSE] }
    ELSE IF QueryById(rows, id) = <<>>
    THEN { [table |-> rows, result |-> Some(None), error |-> "", fault |-> FALSE] }
    ELSE LET existing == fromRow(QueryById(rows, id)[1])
             updated == SpreadUpdate(existing, updates, t)
             newRow == toRow(updated)
             rollbackRow == toRow(existing)
             deleted == DeleteById(rows, id)
             malformed == Malformed(<<newRow>>) \/ DOMAIN newRow # RecordKeys
         IN  { [table |-> deleted \o <<newRow>>,
                result |-> Some(Some(fromRow(newRow))), error |-> "", fault |-> FALSE] }
             \cup
             ( IF malformed \/ mayFault
               THEN { [table |-> deleted \o <<rollbackRow>>, result |-> None,
                       error |-> AddFailed, fault |-> ~malformed],
                      [table |-> deleted, result |-> None,
                       error |-> RollbackFailed, fault |-> ~malformed] }
               ELSE {} )

\* ------------------------------------------------------------ manager state

\* The variables the manager's actions leave alone.
storeIdle ==
    <<tableExists, initPc, initialized, ftsReady, writeLock, resolved, calls, now,
      probe, factory, retriever>>

\* The error of a failed embedding request.
EmbedFailed == "embedding: request failed"

\* A manager call that was not made yet.
IdleManagerCall ==
    [ op |-> "none", pc |-> "idle",
      args |-> None,        \* the arguments of the call
      scope |-> "",         \* scope ?? config.defaultScope
      extracted |-> <<>>,   \* the candidates, or the memories to import
      i |-> 0,              \* the index of the for loop
      vector |-> None,      \* the embedding awaited last
      dedup |-> None,       \* dedupResult
      similar |-> <<>>,     \* highConfidenceMatches handed to llmDecide
      existing |-> None,    \* update: the record getById returned
      stored |-> <<>>,      \* storeExtracted's `stored`
      imported |-> 0,       \* import's `imported`
      count |-> 0,          \* reembed's `count`
      embeds |-> 0,         \* embedding requests made by the call
      searches |-> 0,       \* vectorSearch calls made by deduplicate
      llmDecisions |-> 0,   \* LLM requests made by deduplicate
      response |-> None,    \* llmDecide: what llm.complete settled with
      before |-> <<>>,      \* store: the rows of the table when it was called
      result |-> None, error |-> "" ]

\* The row a first store("User prefers dark mode", "preferences",
\* {skipExtraction: true, tags: ["ui"]}) leaves.
DarkModeRow ==
    toRow([ id |-> "u1",
            headline |-> "User prefers dark mode",
            summary |-> "User prefers dark mode",
            content |-> "User prefers dark mode",
            category |-> "preferences", scope |-> defaultScope, importance |-> 50,
            createdAt |-> 0, updatedAt |-> 0, accessCount |-> 0, lastAccessedAt |-> 0,
            tags |-> <<"ui">>, metadata |-> <<>>,
            vector |-> Some(embed("User prefers dark mode")) ])

\* After MemoryManager.init(): the Store is initialised, no call was made.
InitManager ==
    /\ tableExists = TRUE
    /\ table \in { <<>>, <<DarkModeRow>> }
    /\ nextUuid = Len(table) + 1
    /\ initPc = "done"
    /\ initialized = TRUE
    /\ ftsReady = TRUE
    /\ writeLock = InitialPromise
    /\ resolved = {InitialPromise}
    /\ calls = [c \in Slots |-> IdleCall]
    /\ now = 0
    /\ faults = 0
    /\ probe = None
    /\ factory = None
    /\ retriever = None
    /\ \E strategy \in Strategies :
          manager = [strategy |-> strategy, calls |-> [c \in Slots |-> IdleManagerCall]]

ManagerNextSlot(c) ==
    /\ manager.calls[c].pc = "idle"
    /\ \A d \in Slots : d < c => manager.calls[d].pc # "idle"

\* A service outside the process (embedding, engine) may fail of its own.
MayFault == faults < MaxFaults

\* JavaScript truthiness of an optional string.
Truthy(text) == text # None /\ text[1] # ""

\* options of store: each key is present (Some) or not.
StoreBase ==
    [ content |-> "The user likes dark themes", category |-> "preferences",
      scope |-> None, importance |-> None, tags |-> Some(<<"t1">>), metadata |-> None,
      skipExtraction |-> FALSE ]

\* The calls of store: with and without extraction, and with an argument
\* that is no scope, no category, or no importance in [0, 1].
StoreArgs ==
    { StoreBase,
      [StoreBase EXCEPT !.skipExtraction = TRUE],
      [StoreBase EXCEPT !.skipExtraction = TRUE, !.scope = Some("global' OR '1'='1")],
      [StoreBase EXCEPT !.skipExtraction = TRUE, !.category = "Profile"],
      [StoreBase EXCEPT !.skipExtraction = TRUE, !.importance = Some(500)],
      [StoreBase EXCEPT !.category = "Profile"],
      [StoreBase EXCEPT !.category = "cases", !.scope = Some("agent:a"),
                        !.content = "Fixed a memory leak in component X."],
      [StoreBase EXCEPT !.category = "cases", !.scope = Some("global' OR '1'='1")] }

\* store(content, category, options), up to its first await.
StoreCall(c) ==
    /\ ManagerNextSlot(c)
    /\ \E args \in StoreArgs :
          manager' = [manager EXCEPT !.calls[c] =
              [IdleManagerCall EXCEPT
                  !.op = "store", !.args = Some(args), !.before = table,
                  !.scope = Coalesce(args.scope, Some(defaultScope))[1],
                  !.pc = IF args.skipExtraction THEN "embed" ELSE "extract"]]
    /\ UNCHANGED <<storeIdle, table, nextUuid, faults>>

\* store with skipExtraction: embedding.embed(content) settles.
StoreEmbed(c) ==
    LET call == manager.calls[c]
    IN  /\ call.op = "store"
        /\ call.pc = "embed"
        /\ \/ /\ manager' = [manager EXCEPT !.calls[c] =
                    [call EXCEPT !.vector = Some(embed(call.args[1].content)),
                                 !.embeds = @ + 1, !.pc = "insert"]]
              /\ UNCHANGED faults
           \/ /\ MayFault
              /\ faults' = faults + 1
              /\ manager' = [manager EXCEPT !.calls[c] =
                    [call EXCEPT !.embeds = @ + 1, !.pc = "done", !.error = EmbedFailed]]
        /\ UNCHANGED <<storeIdle, table, nextUuid>>

\* The argument store with skipExtraction hands to insert (manager.ts:176-186).
DirectMemory(args, scope, vector) ==
    [ headline |-> Slice(args.content, 100),
      summary |-> Slice(args.content, 300),
      content |-> args.content,
      category |-> args.category,
      scope |-> scope,
      importance |-> Coalesce(args.importance, Some(50))[1],
      tags |-> Coalesce(args.tags, Some(<<>>))[1],
      metadata |-> Coalesce(args.metadata, Some(<<>>))[1],
      vector |-> Some(vector) ]

\* store with skipExtraction: db.insert settles.
StoreInsert(c) ==
    LET call == manager.calls[c]
        record == NewRecord(DirectMemory(call.args[1], call.scope, call.vector[1]),
                            UuidPool[nextUuid], now)
    IN  /\ call.op = "store"
        /\ call.pc = "insert"
        /\ nextUuid <= Len(UuidPool)
        /\ nextUuid' = nextUuid + 1
        /\ \/ /\ table' = InsertedTable(table, record)
              /\ manager' = [manager EXCEPT !.calls[c] =
                    [call EXCEPT !.pc = "done", !.result = Some(<<fromRow(toRow(record))>>)]]
              /\ UNCHANGED faults
           \/ /\ MayFault
              /\ faults' = faults + 1
              /\ manager' = [manager EXCEPT !.calls[c] =
                    [call EXCEPT !.pc = "done", !.error = AddFailed]]
              /\ UNCHANGED table
        /\ UNCHANGED storeIdle

\* The scope argument of processTurn and processSession.
ProcessScopes == { None, Some("global' OR '1'='1") }

\* processTurn and processSession, up to the extractor's await.
ProcessCall(c) ==
    /\ ManagerNextSlot(c)
    /\ \E op \in {"processTurn", "processSession"}, scope \in ProcessScopes :
          manager' = [manager EXCEPT !.calls[c] =
              [IdleManagerCall EXCEPT
                  !.op = op, !.args = Some([scope |-> scope]),
                  !.scope = Coalesce(scope, Some(defaultScope))[1],
                  !.pc = "extract"]]
    /\ UNCHANGED <<storeIdle, table, nextUuid, faults>>

\* storeExtracted: the loop moves to the next candidate, or returns `stored`.
NextCandidate(call) ==
    IF call.i < Len(call.extracted)
    THEN [call EXCEPT !.i = @ + 1, !.pc = "loop_embed", !.vector = None,
                      !.dedup = None, !.similar = <<>>]
    ELSE [call EXCEPT !.pc = "done", !.result = Some(call.stored)]

\* extractFromText, extractFromTurn, extractFromSession settle; store
\* overrides the category of what was extracted; storeExtracted starts.
Extract(c) ==
    LET call == manager.calls[c]
    IN  /\ call.op \in {"store", "processTurn", "processSession"}
        /\ call.pc = "extract"
        /\ \E raw \in RawResponses :
              LET extracted == validateExtracted(raw)
                  adjusted == IF call.op = "store"
                              THEN [i \in 1..Len(extracted) |->
                                      [extracted[i] EXCEPT !.category = call.args[1].category]]
                              ELSE extracted
              IN  manager' = [manager EXCEPT !.calls[c] =
                      NextCandidate([call EXCEPT !.extracted = adjusted])]
        /\ UNCHANGED <<storeIdle, table, nextUuid, faults>>

\* storeExtracted: embedding.embed of the candidate settles; an error is
\* caught by the loop body's try.
StoreExtractedEmbed(c) ==
    LET call == manager.calls[c]
        candidate == call.extracted[call.i]
        text == EmbedText(candidate.headline, candidate.summary, candidate.content)
    IN  /\ call.op \in {"store", "processTurn", "processSession"}
        /\ call.pc = "loop_embed"
        /\ \/ /\ manager' = [manager EXCEPT !.calls[c] =
                    [call EXCEPT !.vector = Some(embed(text)), !.embeds = @ + 1,
                                 !.pc = "dedup"]]
              /\ UNCHANGED faults
           \/ /\ MayFault
              /\ faults' = faults + 1
              /\ manager' = [manager EXCEPT !.calls[c] =
                    NextCandidate([call EXCEPT !.embeds = @ + 1])]
        /\ UNCHANGED <<storeIdle, table, nextUuid>>

\* storeExtracted after deduplicate: SKIP continues, MERGE with a targetId
\* re-embeds when there is merged content and updates, anything else inserts.
AfterDedup(call, dedupResult) ==
    LET decided == [call EXCEPT !.dedup = Some(dedupResult)]
    IN  IF dedupResult.decision = "SKIP" THEN NextCandidate(decided)
        ELSE IF dedupResult.decision = "MERGE" /\ Truthy(dedupResult.targetId)
        THEN [decided EXCEPT !.pc = IF Truthy(dedupResult.mergedContent)
                                    THEN "merge_embed" ELSE "merge_update"]
        ELSE [decided EXCEPT !.pc = "create"]

\* deduplicate up to its return or to the LLM request: an append-only
\* category returns CREATE at once; otherwise vectorSearch runs (an invalid
\* scope or category throws, which storeExtracted catches).
Deduplicate(c) ==
    LET call == manager.calls[c]
        candidate == call.extracted[call.i]
        searched == [call EXCEPT !.searches = @ + 1]
        vectorCandidates ==
            vectorSearch(table, call.vector[1], DedupSearchOptions(candidate, call.scope))
        matches == highConfidenceMatches(vectorCandidates)
    IN  /\ call.op \in {"store", "processTurn", "processSession"}
        /\ call.pc = "dedup"
        /\ manager' = [manager EXCEPT !.calls[c] =
              IF candidate.category \in APPEND_ONLY_CATEGORIES
              THEN AfterDedup(call, Decided("CREATE", "Append-only category"))
              ELSE IF FilterError(Some(call.scope), <<candidate.category>>) # ""
              THEN NextCandidate(searched)
              ELSE IF Len(vectorCandidates) = 0
              THEN AfterDedup(searched, Decided("CREATE", "No similar memories found"))
              ELSE IF Len(matches) = 0
              THEN AfterDedup(searched, Decided("CREATE", "Similarity below threshold"))
              ELSE IF manager.strategy = "vector"
              THEN AfterDedup(searched, VectorMerge(matches[1].memory, candidate))
              ELSE IF manager.strategy = "both" /\ 100 - matches[1].distance >= llmThreshold
              THEN AfterDedup(searched, Decided("SKIP", "Very high vector similarity"))
              ELSE [searched EXCEPT !.similar = matches, !.pc = "llm"]]
        /\ UNCHANGED <<storeIdle, table, nextUuid, faults>>

\* The targetIds of a MERGE the LLM may answer with, besides the id of the
\* first memory shown: none, a text that is no UUID, the id of no row, and
\* the id of a row the prompt did not show (u2: in the initial tables a row
\* of another scope and category, or the second similar row).
OtherTargets == { None, Some("inj"), Some("u6"), Some("u2") }

\* The objects the LLM may answer the dedup prompt with: CREATE, SKIP, a
\* decision outside the three, MERGE into the first memory shown, with each
\* of the merged texts given or not (merged tags come with merged content),
\* and MERGE with another targetId, with and without merged content.
LlmAnswers(similar) ==
    { DedupResult("CREATE"), DedupResult("SKIP"), DedupResult("UNSURE") }
    \cup
    { [DedupResult("MERGE") EXCEPT
          !.targetId = Some(similar[1].memory.id),
          !.mergedHeadline = headline,
          !.mergedSummary = summary,
          !.mergedContent = content,
          !.mergedTags = IF content = None THEN None ELSE Some(<<"merged">>)]
      : headline \in {None, Some("Dark look")},
        summary \in {None, Some("Likes a dark look")},
        content \in {None, Some("Likes dark themes and dark mode")} }
    \cup
    { [DedupResult("MERGE") EXCEPT
          !.targetId = targetId,
          !.mergedContent = content,
          !.mergedTags = IF content = None THEN None ELSE Some(<<"merged">>)]
      : targetId \in OtherTargets,
        content \in {None, Some("Likes dark themes and dark mode")} }

\* A response of the LLM that holds no JSON.
NotJson == [text |-> "These two look like the same memory."]

\* The request to the LLM failed.
LlmFailed == [error |-> "llm: request failed"]

\* What llm.complete may resolve with.
LlmResponses(similar) ==
    { JSONstringify(answer) : answer \in LlmAnswers(similar) } \cup { NotJson }

\* safeJsonParse(text, fallback): the JSON the text holds, or the fallback.
safeJsonParse(text, fallback) == JSONparseOr(text, fallback)

\* Any decision the result holds is taken.
AnyDecision(result) == "decision" \in DOMAIN result

\* ['CREATE', 'MERGE', 'SKIP'].includes(result.decision)
ValidDecision(result) ==
    /\ "decision" \in DOMAIN result
    /\ result.decision \in {"CREATE", "MERGE", "SKIP"}

\* llmDecide: llm.complete settles.  A response whose decision is none of
\* the three, or that holds no JSON (the fallback {} has no decision), gives
\* CREATE, and so does an error of the request.
LlmDecide(c) ==
    LET call == manager.calls[c]
        asked == [call EXCEPT !.llmDecisions = @ + 1]
    IN  /\ call.pc = "llm"
        /\ \/ \E response \in LlmResponses(call.similar) :
                 LET result == safeJsonParse(response, <<>>)
                     answered == [asked EXCEPT !.response = Some(response)]
                 IN  manager' = [manager EXCEPT !.calls[c] =
                         IF ValidDecision(result)
                         THEN AfterDedup(answered, result)
                         ELSE AfterDedup(answered,
                                  Decided("CREATE", "LLM returned invalid decision"))]
           \/ manager' = [manager EXCEPT !.calls[c] =
                   AfterDedup([asked EXCEPT !.response = Some(LlmFailed)],
                              Decided("CREATE", "LLM error"))]
        /\ UNCHANGED <<storeIdle, table, nextUuid, faults>>

\* storeExtracted, MERGE with merged content: the embedding of the merged
\* text settles.
MergeEmbed(c) ==
    LET call == manager.calls[c]
        candidate == call.extracted[call.i]
        dedupResult == call.dedup[1]
        text == EmbedText(Coalesce(dedupResult.mergedHeadline, Some(candidate.headline))[1],
                          Coalesce(dedupResult.mergedSummary, Some(candidate.summary))[1],
                          dedupResult.mergedContent[1])
    IN  /\ call.pc = "merge_embed"
        /\ \/ /\ manager' = [manager EXCEPT !.calls[c] =
                    [call EXCEPT !.vector = Some(embed(text)), !.embeds = @ + 1,
                                 !.pc = "merge_update"]]
              /\ UNCHANGED faults
           \/ /\ MayFault
              /\ faults' = faults + 1
              /\ manager' = [manager EXCEPT !.calls[c] =
                    NextCandidate([call EXCEPT !.embeds = @ + 1])]
        /\ UNCHANGED <<storeIdle, table, nextUuid>>

\* The updates storeExtracted hands to db.update for a MERGE.
MergeUpdates(dedupResult, candidate, vector) ==
    [NoUpdates EXCEPT
        !.headline = Coalesce(dedupResult.mergedHeadline, Some(candidate.headline)),
        !.summary = Coalesce(dedupResult.mergedSummary, Some(candidate.summary)),
        !.content = Coalesce(dedupResult.mergedContent, Some(candidate.content)),
        !.tags = Coalesce(dedupResult.mergedTags, Some(candidate.tags)),
        !.vector = Some(vector)]

\* storeExtracted, MERGE: db.update settles; a record is pushed to `stored`,
\* null is not, an error is caught.
MergeUpdate(c) ==
    LET call == manager.calls[c]
        candidate == call.extracted[call.i]
        dedupResult == call.dedup[1]
        updates == MergeUpdates(dedupResult, candidate, call.vector[1])
    IN  /\ call.pc = "merge_update"
        /\ \E outcome \in UpdateOutcomes(table, dedupResult.targetId[1], updates, now, MayFault) :
              /\ table' = outcome.table
              /\ faults' = IF outcome.fault THEN faults + 1 ELSE faults
              /\ manager' = [manager EXCEPT !.calls[c] =
                    IF outcome.error = "" /\ outcome.result[1] # None
                    THEN NextCandidate([call EXCEPT !.stored = Append(@, outcome.result[1][1])])
                    ELSE NextCandidate(call)]
        /\ UNCHANGED <<storeIdle, nextUuid>>

\* The argument storeExtracted hands to insert for a CREATE.
CandidateMemory(candidate, scope, vector) ==
    [ headline |-> candidate.headline,
      summary |-> candidate.summary,
      content |-> candidate.content,
      category |-> candidate.category,
      scope |-> scope,
      importance |-> candidate.importance,
      tags |-> candidate.tags,
      metadata |-> candidate.metadata,
      vector |-> Some(vector) ]

\* storeExtracted, CREATE: db.insert settles; an error is caught.
CreateInsert(c) ==
    LET call == manager.calls[c]
        record == NewRecord(CandidateMemory(call.extracted[call.i], call.scope, call.vector[1]),
                            UuidPool[nextUuid], now)
    IN  /\ call.pc = "create"
        /\ nextUuid <= Len(UuidPool)
        /\ nextUuid' = nextUuid + 1
        /\ \/ /\ table' = InsertedTable(table, record)
              /\ manager' = [manager EXCEPT !.calls[c] =
                    NextCandidate([call EXCEPT !.stored = Append(@, fromRow(toRow(record)))])]
              /\ UNCHANGED faults
           \/ /\ MayFault
              /\ faults' = faults + 1
              /\ manager' = [manager EXCEPT !.calls[c] = NextCandidate(call)]
              /\ UNCHANGED table
        /\ UNCHANGED storeIdle

\* ------------------------------------------------------------------ import

\* Memories of an ExportData: what export wrote, and a memory of a file
\* edited by hand.
ExportedMemory ==
    [ id |-> "u5", headline |-> "Leak", summary |-> "Leak fixed",
      content |-> "Fixed a memory leak in component X.",
      category |-> "cases", scope |-> "agent:a", importance |-> 70,
      createdAt |-> 0, updatedAt |-> 0, accessCount |-> 3, lastAccessedAt |-> 0,
      tags |-> <<"bug">>, metadata |-> <<>> ]

EditedMemory ==
    [ExportedMemory EXCEPT !.category = "Cases", !.scope = "agent:", !.importance = 700]

\* The arguments of import: data.memories and the optional scope.
ImportArgs ==
    { [memories |-> <<>>, scope |-> None],
      [memories |-> <<ExportedMemory, EditedMemory>>, scope |-> None],
      [memories |-> <<EditedMemory>>, scope |-> Some("global")] }

\* import: the loop moves to the next memory, or returns `imported`.
NextImport(call) ==
    IF call.i < Len(call.extracted)
    THEN [call EXCEPT !.i = @ + 1, !.pc = "import_embed", !.vector = None]
    ELSE [call EXCEPT !.pc = "done", !.result = Some(call.imported)]

\* import(data, scope), up to its first await.
ImportCall(c) ==
    /\ ManagerNextSlot(c)
    /\ \E args \in ImportArgs :
          manager' = [manager EXCEPT !.calls[c] =
              NextImport([IdleManagerCall EXCEPT
                  !.op = "import", !.args = Some(args), !.extracted = args.memories])]
    /\ UNCHANGED <<storeIdle, table, nextUuid, faults>>

\* import: embedding.embed of the memory settles; an error is caught.
ImportEmbed(c) ==
    LET call == manager.calls[c]
        m == call.extracted[call.i]
    IN  /\ call.pc = "import_embed"
        /\ \/ /\ manager' = [manager EXCEPT !.calls[c] =
                    [call EXCEPT !.vector = Some(embed(EmbedText(m.headline, m.summary, m.content))),
                                 !.embeds = @ + 1, !.pc = "import_insert"]]
              /\ UNCHANGED faults
           \/ /\ MayFault
              /\ faults' = faults + 1
              /\ manager' = [manager EXCEPT !.calls[c] =
                    NextImport([call EXCEPT !.embeds = @ + 1])]
        /\ UNCHANGED <<storeIdle, table, nextUuid>>

\* { ...m, scope: scope ?? m.scope, vector }
ImportedMemory(m, scope, vector) ==
    [ headline |-> m.headline,
      summary |-> m.summary,
      content |-> m.content,
      category |-> m.category,
      scope |-> Coalesce(scope, Some(m.scope))[1],
      importance |-> m.importance,
      tags |-> m.tags,
      metadata |-> m.metadata,
      vector |-> Some(vector) ]

\* import: db.insert settles; an error is caught.
ImportInsert(c) ==
    LET call == manager.calls[c]
        memory == ImportedMemory(call.extracted[call.i], call.args[1].scope, call.vector[1])
        record == NewRecord(memory, UuidPool[nextUuid], now)
    IN  /\ call.pc = "import_insert"
        /\ nextUuid <= Len(UuidPool)
        /\ nextUuid' = nextUuid + 1
        /\ \/ /\ table' = InsertedTable(table, record)
              /\ manager' = [manager EXCEPT !.calls[c] =
                    NextImport([call EXCEPT !.imported = @ + 1])]
              /\ UNCHANGED faults
           \/ /\ MayFault
              /\ faults' = faults + 1
              /\ manager' = [manager EXCEPT !.calls[c] = NextImport(call)]
              /\ UNCHANGED table
        /\ UNCHANGED storeIdle

\* ------------------------------------------------------ MemoryManager.update

\* The argument `updates` of MemoryManager.update.
ManagerUpdateArgs ==
    { [NoUpdates EXCEPT !.content = Some("Prefers light mode")],
      [NoUpdates EXCEPT !.headline = Some("Theme")],
      [NoUpdates EXCEPT !.content = Some("")],
      [NoUpdates EXCEPT !.importance = Some(500)] }

\* updates.content || updates.summary || updates.headline
TextChanged(updates) ==
    Truthy(updates.content) \/ Truthy(updates.summary) \/ Truthy(updates.headline)

\* update(id, updates), up to its first await: db.getById when a text field
\* of updates is truthy, db.update otherwise.
ManagerUpdateCall(c) ==
    /\ ManagerNextSlot(c)
    /\ \E id \in ValidIdArgs, updates \in ManagerUpdateArgs :
          manager' = [manager EXCEPT !.calls[c] =
              [IdleManagerCall EXCEPT
                  !.op = "update", !.args = Some([id |-> id, updates |-> updates]),
                  !.pc = IF TextChanged(updates) THEN "update_read" ELSE "update_write"]]
    /\ UNCHANGED <<storeIdle, table, nextUuid, faults>>

\* update: db.getById settles; null makes update return null.
ManagerUpdateGetById(c) ==
    LET call == manager.calls[c]
        hits == QueryById(table, call.args[1].id)
    IN  /\ call.pc = "update_read"
        /\ manager' = [manager EXCEPT !.calls[c] =
              IF hits = <<>>
              THEN [call EXCEPT !.pc = "done", !.result = Some(None)]
              ELSE [call EXCEPT !.existing = Some(fromRow(hits[1])), !.pc = "update_embed"]]
        /\ UNCHANGED <<storeIdle, table, nextUuid, faults>>

\* update: the embedding of the new headline, summary and content settles.
ManagerUpdateEmbed(c) ==
    LET call == manager.calls[c]
        updates == call.args[1].updates
        existing == call.existing[1]
        newHeadline == Coalesce(updates.headline, Some(TemplateText(existing, "headline")))[1]
        newSummary == Coalesce(updates.summary, Some(TemplateText(existing, "summary")))[1]
        newContent == Coalesce(updates.content, Some(TemplateText(existing, "content")))[1]
    IN  /\ call.pc = "update_embed"
        /\ \/ /\ manager' = [manager EXCEPT !.calls[c] =
                    [call EXCEPT !.vector = Some(embed(EmbedText(newHeadline, newSummary, newContent))),
                                 !.embeds = @ + 1, !.pc = "update_write"]]
              /\ UNCHANGED faults
           \/ /\ MayFault
              /\ faults' = faults + 1
              /\ manager' = [manager EXCEPT !.calls[c] =
                    [call EXCEPT !.embeds = @ + 1, !.pc = "done", !.error = EmbedFailed]]
        /\ UNCHANGED <<storeIdle, table, nextUuid>>

\* update: db.update(id, { ...updates, vector }) or db.update(id, updates)
\* settles.
ManagerUpdateWrite(c) ==
    LET call == manager.calls[c]
        updates == IF call.vector # None
                   THEN [call.args[1].updates EXCEPT !.vector = call.vector]
                   ELSE call.args[1].updates
    IN  /\ call.op = "update"
        /\ call.pc = "update_write"
        /\ \E outcome \in UpdateOutcomes(table, call.args[1].id, updates, now, MayFault) :
              /\ table' = outcome.table
              /\ faults' = IF outcome.fault THEN faults + 1 ELSE faults
              /\ manager' = [manager EXCEPT !.calls[c] =
                    IF outcome.error = ""
                    THEN [call EXCEPT !.pc = "done", !.result = Some(outcome.result[1])]
                    ELSE [call EXCEPT !.pc = "done", !.error = outcome.error]]
        /\ UNCHANGED <<storeIdle, nextUuid>>

\* ------------------------------------------- specification of the manager

NextManager ==
    \E c \in Slots :
        \/ StoreCall(c)
        \/ StoreEmbed(c)
        \/ StoreInsert(c)
        \/ ProcessCall(c)
        \/ Extract(c)
        \/ StoreExtractedEmbed(c)
        \/ Deduplicate(c)
        \/ LlmDecide(c)
        \/ MergeEmbed(c)
        \/ MergeUpdate(c)
        \/ CreateInsert(c)
        \/ ImportCall(c)
        \/ ImportEmbed(c)
        \/ ImportInsert(c)
        \/ ManagerUpdateCall(c)
        \/ ManagerUpdateGetById(c)
        \/ ManagerUpdateEmbed(c)
        \/ ManagerUpdateWrite(c)

SpecManager == InitManager /\ [][NextManager]_vars

\* ------------------------------------------------- claims about the manager

\* C11: every row of the table has a category of the closed set and a scope
\* that matches the scope grammar, whatever scope and category were passed
\* to store, processTurn, processSession or import.
C11_RowsHaveValidScopeAndCategory ==
    \A i \in 1..Len(table) :
        /\ assertCategory(table[i].category)
        /\ assertScope(table[i].scope)

\* C12: every row of the table has an importance in [0, 1] (0..100
\* hundredths), on every ingest path.
C12_ImportanceInUnitInterval ==
    \A i \in 1..Len(table) :
        /\ 0 <= table[i].importance
        /\ table[i].importance <= 100

\* The delta of an update contains headline, summary or content.
ContainsText(updates) ==
    updates.headline # None \/ updates.summary # None \/ updates.content # None

\* The vector of the row is the embedding of the row's own text.
VectorMatchesText(row) ==
    row.vector = Some(embed(EmbedText(row.headline, row.summary, row.content)))

\* C13: when MemoryManager.update(id, delta) returns a record, it has
\* requested an embedding exactly when delta contains headline, summary or
\* content, and the row with the id has the vector embed(headline + "\n" +
\* summary + "\n" + content) of its fields after the update.
C13_UpdateReembeds ==
    [][ \A c \in Slots :
          ( /\ manager.calls[c].op = "update"
            /\ manager.calls[c].pc = "update_write"
            /\ manager'.calls[c].pc = "done"
            /\ manager'.calls[c].error = ""
            /\ manager'.calls[c].result[1] # None )
          => /\ ContainsText(manager.calls[c].args[1].updates)
                <=> manager'.calls[c].embeds = 1
             /\ \A i \in 1..Len(table') :
                   table'[i].id = manager.calls[c].args[1].id => VectorMatchesText(table'[i]) ]_vars

\* ------------------------------------------ the Store under fair scheduling

\* A step of call c other than the call itself: an awaited promise settles
\* and the continuation runs.
Settle(c) ==
    \/ WithWriteLockEnter(c)
    \/ InsertAdd(c)
    \/ InsertFts(c)
    \/ UpdateGetById(c)
    \/ UpdateDelete(c)
    \/ UpdateAdd(c)
    \/ RollbackAdd(c)
    \/ IncrementGetById(c)
    \/ IncrementDelete(c)
    \/ IncrementAdd(c)
    \/ DeleteGetById(c)
    \/ DeleteDelete(c)
    \/ DeleteManyDelete(c)
    \/ DeleteByScopeCount(c)
    \/ DeleteByScopeDelete(c)
    \/ GetByIdQuery(c)
    \/ CountByScopeQuery(c)
    \/ SearchQuery(c)

\* Every engine request terminates and the event loop runs every
\* continuation that is ready.
SpecLive == Spec /\ \A c \in Slots : WF_vars(Settle(c))

\* A step gives a result or an error to one call only.
OwnOutcome ==
    \A c, d \in Slots :
        ( c # d /\ (calls'[c].result # calls[c].result \/ calls'[c].error # calls[c].error) )
        => calls'[d] = calls[d]

\* C14: the write chain is released on every exit path: every call placed on
\* the chain eventually settles, also when a body before it threw (a failed
\* add, a failed rollback), and a step delivers a result or an error to one
\* call only.
C14_ChainReleased ==
    /\ \A c \in Slots : calls[c].chained ~> calls[c].pc = "done"
    /\ [][OwnOutcome]_vars

\* A write threw in its body, and a write placed on the chain after it has
\* run its body and returned.
C14_Witness ==
    \E c, d \in Slots :
        /\ c < d
        /\ calls[c].chained /\ calls[c].pc = "done"
        /\ calls[c].error \in {AddFailed, RollbackFailed}
        /\ calls[d].chained /\ calls[d].pc = "done"
        /\ calls[d].engineCalls > 0
        /\ calls[d].error = ""

\* ==================================================================== getDB
\*
\* The singleton factory (db.ts:984-994) with TinmemDB.init (db.ts:529-557).
\* A caller of getDB that finds no instance under its key constructs a
\* TinmemDB, named here by the caller's slot, and awaits its init().
\* `factory` holds the `instances` map, the tables on disk, the number of
\* createTable requests per path, and the callers.

\* The dbPath arguments of getDB.
DbPaths == {"data", "other"}

\* `${dbPath}:${dimensions}`
InstanceKey(dbPath, dimensions) == <<dbPath, dimensions>>

\* The keys of the callers of the model: every caller passes the configured
\* dimensionality.
InstanceKeys == { InstanceKey(p, Dimensions) : p \in DbPaths }

\* No TinmemDB.
NoInstance == 0

\* The error of createTable with mode 'create' when the table exists.
TableExistsError == "engine: table already exists"

IdleGetDBCall ==
    [ pc |-> "idle", dbPath |-> "", db |-> NoInstance, result |-> NoInstance, error |-> "" ]

InitGetDB ==
    /\ tableExists = FALSE
    /\ table = <<>>
    /\ nextUuid = 1
    /\ initPc = "new"
    /\ initialized = FALSE
    /\ ftsReady = FALSE
    /\ writeLock = InitialPromise
    /\ resolved = {InitialPromise}
    /\ calls = [c \in Slots |-> IdleCall]
    /\ now = 0
    /\ faults = 0
    /\ probe = None
    /\ manager = None
    /\ retriever = None
    /\ \E onDisk \in SUBSET DbPaths :
          factory = [ instances |-> [k \in InstanceKeys |-> NoInstance],
                      tables |-> [p \in DbPaths |-> [exists |-> p \in onDisk, sentinel |-> FALSE]],
                      createTableCalls |-> [p \in DbPaths |-> 0],
                      callers |-> [c \in Slots |-> IdleGetDBCall] ]

\* getDB(dbPath, dimensions) up to its await: an instance under the key is
\* returned; otherwise a TinmemDB is constructed and init() runs up to
\* `await lancedb.connect`.
GetDBCall(c) ==
    /\ factory.callers[c].pc = "idle"
    /\ \E dbPath \in DbPaths :
          factory' = [factory EXCEPT !.callers[c] =
              IF factory.instances[InstanceKey(dbPath, Dimensions)] # NoInstance
              THEN [@ EXCEPT !.pc = "done", !.dbPath = dbPath,
                             !.result = factory.instances[InstanceKey(dbPath, Dimensions)]]
              ELSE [@ EXCEPT !.pc = "connect", !.dbPath = dbPath, !.db = c]]
    /\ UNCHANGED <<dbVars, probe, manager, retriever>>

\* init: lancedb.connect settles.
GetDBConnect(c) ==
    /\ factory.callers[c].pc = "connect"
    /\ factory' = [factory EXCEPT !.callers[c].pc = "tableNames"]
    /\ UNCHANGED <<dbVars, probe, manager, retriever>>

\* init: db.tableNames() settles; the table is opened or created.
GetDBTableNames(c) ==
    LET caller == factory.callers[c]
    IN  /\ caller.pc = "tableNames"
        /\ factory' = [factory EXCEPT !.callers[c].pc =
              IF factory.tables[caller.dbPath].exists THEN "openTable" ELSE "createTable"]
        /\ UNCHANGED <<dbVars, probe, manager, retriever>>

\* init: db.openTable settles; init() returns.
GetDBOpenTable(c) ==
    /\ factory.callers[c].pc = "openTable"
    /\ factory' = [factory EXCEPT !.callers[c].pc = "set"]
    /\ UNCHANGED <<dbVars, probe, manager, retriever>>

\* init: db.createTable(TABLE_NAME, [dummy row], { mode: 'create' }) settles:
\* it throws when the table exists by now.
GetDBCreateTable(c) ==
    LET caller == factory.callers[c]
        counted == [factory EXCEPT !.createTableCalls[caller.dbPath] = @ + 1]
    IN  /\ caller.pc = "createTable"
        /\ factory' =
              IF factory.tables[caller.dbPath].exists
              THEN [counted EXCEPT !.callers[c].pc = "done",
                                   !.callers[c].error = TableExistsError]
              ELSE [counted EXCEPT !.tables[caller.dbPath] = [exists |-> TRUE, sentinel |-> TRUE],
                                   !.callers[c].pc = "deleteSentinel"]
        /\ UNCHANGED <<dbVars, probe, manager, retriever>>

\* init: the delete of the sentinel row settles; init() returns.
GetDBDeleteSentinel(c) ==
    LET caller == factory.callers[c]
    IN  /\ caller.pc = "deleteSentinel"
        /\ factory' = [factory EXCEPT !.tables[caller.dbPath].sentinel = FALSE,
                                      !.callers[c].pc = "set"]
        /\ UNCHANGED <<dbVars, probe, manager, retriever>>

\* getDB after `await db.init()`: instances.set(key, db) and
\* return instances.get(key).
GetDBSet(c) ==
    LET caller == factory.callers[c]
        set == [factory EXCEPT !.instances[InstanceKey(caller.dbPath, Dimensions)] = caller.db]
    IN  /\ caller.pc = "set"
        /\ factory' = [set EXCEPT !.callers[c].pc = "done",
                                  !.callers[c].result = set.instances[InstanceKey(caller.dbPath, Dimensions)]]
        /\ UNCHANGED <<dbVars, probe, manager, retriever>>

NextGetDB ==
    \E c \in Slots :
        \/ GetDBCall(c)
        \/ GetDBConnect(c)
        \/ GetDBTableNames(c)
        \/ GetDBOpenTable(c)
        \/ GetDBCreateTable(c)
        \/ GetDBDeleteSentinel(c)
        \/ GetDBSet(c)

SpecGetDB == InitGetDB /\ [][NextGetDB]_vars

\* C15: all callers of getDB with the same dbPath and dimensions receive the
\* same TinmemDB instance, and createTable is requested at most once for the
\* path.
C15_OneInstancePerKey ==
    /\ \A c, d \in Slots :
          ( /\ factory.callers[c].pc = "done" /\ factory.callers[c].error = ""
            /\ factory.callers[d].pc = "done" /\ factory.callers[d].error = ""
            /\ factory.callers[c].dbPath = factory.callers[d].dbPath )
          => factory.callers[c].result = factory.callers[d].result
    /\ \A p \in DbPaths : factory.createTableCalls[p] <= 1

\* ============================================================== MemoryScorer
\*
\* MemoryScorer.score (scorer.ts, src/unnamed/part_001:26-82).  Retrieval
\* scores, importance and the weights of the configuration are in hundredths;
\* times are in days.  A final score is kept exactly, as an integer number
\* of ScoreUnit-ths.

\* config.scoring, the defaults of config.ts.
scoringCfg ==
    [ vectorWeight |-> 40, bm25Weight |-> 30, rerankerWeight |-> 30,
      recencyBoostDays |-> 7, recencyBoostFactor |-> 15,
      importanceWeight |-> 20,
      timePenaltyDays |-> 90, timePenaltyFactor |-> 20 ]

\* Date.now() of the scorer's model, in days.
ScoreDay == 5000

\* !rerankScores || rerankScores.size === 0
NoRerank(rerankScores) == DOMAIN rerankScores = {}

\* The configured weights taken as they are, in hundredths, with the
\* reranker weight dropped when there are no rerank scores.
keepWeights(cfg, rerankScores) ==
    [ vectorWeight |-> cfg.vectorWeight, bm25Weight |-> cfg.bm25Weight,
      rerankerWeight |-> IF NoRerank(rerankScores) THEN 0 ELSE cfg.rerankerWeight,
      total |-> 100 ]

\* "Determine weights (normalize when reranker is absent)": the weights the
\* scorer uses are vectorWeight/total, bm25Weight/total and
\* rerankerWeight/total of this record.  Without rerank scores the vector
\* and BM25 weights are divided by their sum (0.5 each when the sum is 0)
\* and the reranker weight is 0; with rerank scores the configured
\* hundredths are used.
normalizeWeights(cfg, rerankScores) ==
    IF NoRerank(rerankScores)
    THEN LET total == cfg.vectorWeight + cfg.bm25Weight
         IN  IF total > 0
             THEN [ vectorWeight |-> cfg.vectorWeight, bm25Weight |-> cfg.bm25Weight,
                    rerankerWeight |-> 0, total |-> total ]
             ELSE [ vectorWeight |-> 1, bm25Weight |-> 1,
                    rerankerWeight |-> 0, total |-> 2 ]
    ELSE [ vectorWeight |-> cfg.vectorWeight, bm25Weight |-> cfg.bm25Weight,
           rerankerWeight |-> cfg.rerankerWeight, total |-> 100 ]

\* The weights of the configured scorer.
weightTotal(rerankScores) == normalizeWeights(scoringCfg, rerankScores).total

vectorWeightOf(rerankScores) == normalizeWeights(scoringCfg, rerankScores).vectorWeight

bm25WeightOf(rerankScores) == normalizeWeights(scoringCfg, rerankScores).bm25Weight

rerankerWeightOf(rerankScores) == normalizeWeights(scoringCfg, rerankScores).rerankerWeight

\* The number of units of a final score of 1.
ScoreUnit(rerankScores) ==
    weightTotal(rerankScores) * scoringCfg.recencyBoostDays * 10000 * 100

\* computeRecencyBoost, times recencyBoostDays * 100.
computeRecencyBoost(lastAccessedAt, nowDay) ==
    LET daysSinceAccess == nowDay - lastAccessedAt
    IN  IF daysSinceAccess >= scoringCfg.recencyBoostDays THEN 0
        ELSE scoringCfg.recencyBoostFactor * (scoringCfg.recencyBoostDays - daysSinceAccess)

\* computeTimePenalty in hundredths, for the ages of the model: no penalty up
\* to timePenaltyDays; from 3600 days of excess on, exp(-excess / 90) is
\* below the precision of a double and the penalty is timePenaltyFactor.
computeTimePenalty(createdAt, nowDay) ==
    LET daysSinceCreation == nowDay - createdAt
    IN  CASE daysSinceCreation <= scoringCfg.timePenaltyDays -> 0
          [] daysSinceCreation - scoringCfg.timePenaltyDays >= 3600 ->
                scoringCfg.timePenaltyFactor

\* The final score of one memory, in units: Math.min(1.0, (baseScore +
\* recencyBoost + importanceBoost) * (1 - timePenalty)).
finalScore(m, rerankScores, nowDay) ==
    LET total == weightTotal(rerankScores)
        boostDays == scoringCfg.recencyBoostDays
        retrieval == m.vectorScore * vectorWeightOf(rerankScores)
                     + m.bm25Score * bm25WeightOf(rerankScores)
        baseScore == IF m.id \in DOMAIN rerankScores
                     THEN retrieval + rerankScores[m.id] * rerankerWeightOf(rerankScores)
                     ELSE retrieval
        recencyBoost == computeRecencyBoost(m.lastAccessedAt, nowDay)
        importanceBoost == m.importance * scoringCfg.importanceWeight
        sum == baseScore * boostDays * 100
               + recencyBoost * total * 100
               + importanceBoost * total * boostDays
        product == sum * (100 - computeTimePenalty(m.createdAt, nowDay))
    IN  IF product > ScoreUnit(rerankScores) THEN ScoreUnit(rerankScores) ELSE product

RECURSIVE SortByScore(_)
\* array.sort((a, b) => b.score - a.score): descending score; the sort is
\* stable, so memories of equal score stay in the order they had.
SortByScore(scored) ==
    IF scored = <<>> THEN <<>>
    ELSE LET first == CHOOSE i \in 1..Len(scored) :
                          \A j \in 1..Len(scored) :
                              \/ scored[j].score < scored[i].score
                              \/ scored[j].score = scored[i].score /\ i <= j
         IN  <<scored[first]>> \o
             SortByScore(SubSeq(scored, 1, first - 1) \o SubSeq(scored, first + 1, Len(scored)))

\* MemoryScorer.score(memories, rerankScores)
score(memories, rerankScores, nowDay) ==
    SortByScore([i \in 1..Len(memories) |->
        [ id |-> memories[i].id,
          importance |-> memories[i].importance,
          vectorScore |-> memories[i].vectorScore,
          bm25Score |-> memories[i].bm25Score,
          score |-> finalScore(memories[i], rerankScores, nowDay) ]])

\* The candidates mergeResults hands to the scorer: vectorScore is 1 minus
\* the cosine distance of the engine, which lies in [0, 2]; bm25Score is 0
\* for a vector-only hit; a memory is fresh (created today, read 3 days
\* ago) or old (created and last read 4000 days ago).
ScoreCandidates(id) ==
    { [ id |-> id, importance |-> imp, vectorScore |-> vs, bm25Score |-> bs,
        createdAt |-> age.createdAt, lastAccessedAt |-> age.lastAccessedAt ] :
        imp \in {0, 100}, vs \in {-50, 90}, bs \in {0, 100},
        age \in { [createdAt |-> ScoreDay, lastAccessedAt |-> ScoreDay - 3],
                  [createdAt |-> ScoreDay - 4000, lastAccessedAt |-> ScoreDay - 4000] } }

\* The candidate lists: up to two memories of distinct ids, in either order.
ScoreLists ==
    { <<>> }
    \cup { <<m>> : m \in ScoreCandidates("u1") \cup ScoreCandidates("u2") }
    \cup { <<m, n>> : m \in ScoreCandidates("u1"), n \in ScoreCandidates("u2") }
    \cup { <<n, m>> : m \in ScoreCandidates("u1"), n \in ScoreCandidates("u2") }

\* The optional reranker scores: none, or a score for the memory u1.
RerankMaps == { <<>>, [id \in {"u1"} |-> 80] }

\* A caller holds a candidate list and an optional rerank map.
InitScore ==
    /\ tableExists = FALSE
    /\ table = <<>>
    /\ nextUuid = 1
    /\ initPc = "new"
    /\ initialized = FALSE
    /\ ftsReady = FALSE
    /\ writeLock = InitialPromise
    /\ resolved = {InitialPromise}
    /\ calls = [c \in Slots |-> IdleCall]
    /\ now = ScoreDay
    /\ faults = 0
    /\ manager = None
    /\ factory = None
    /\ retriever = None
    /\ \E memories \in ScoreLists, rerankScores \in RerankMaps :
          probe = [ op |-> "score", memories |-> memories,
                    rerankScores |-> rerankScores, scored |-> None ]

\* scorer.score(memories, rerankScores)
ScoreCall ==
    /\ probe.scored = None
    /\ probe' = [probe EXCEPT !.scored = Some(score(probe.memories, probe.rerankScores, now))]
    /\ UNCHANGED <<dbVars, manager, factory, retriever>>

NextScore == ScoreCall

SpecScore == InitScore /\ [][NextScore]_vars

\* C17: every final score that MemoryScorer.score returns lies in [0, 1].
C17_ScoreInUnitInterval ==
    probe.scored # None =>
        \A i \in 1..Len(probe.scored[1]) :
            /\ 0 <= probe.scored[1][i].score
            /\ probe.scored[1][i].score <= ScoreUnit(probe.rerankScores)

\* The position of an id in the ascending order of ids.
IdRank(id) == CHOOSE i \in 1..Len(UuidPool) : UuidPool[i] = id

\* a comes before b in the order: descending final score, then descending
\* importance, then ascending id.
RanksBefore(a, b) ==
    \/ a.score > b.score
    \/ a.score = b.score /\ a.importance > b.importance
    \/ a.score = b.score /\ a.importance = b.importance /\ IdRank(a.id) < IdRank(b.id)

\* C18: the list MemoryScorer.score returns is in descending final score,
\* ties broken by descending importance and then ascending id, whatever the
\* order of the input list.
C18_OrderedWithTieBreaks ==
    probe.scored # None =>
        \A i \in 1..Len(probe.scored[1]) : \A j \in 1..Len(probe.scored[1]) :
            i < j => RanksBefore(probe.scored[1][i], probe.scored[1][j])

\* =========================================================== MemoryRetriever
\*
\* MemoryRetriever.retrieve (retriever.ts, src/unnamed/part_001:338-406) and
\* the detached updateAccessCounts (486-490).  The two searches read the
\* table in one step each; the access bumps are calls of the Store and go
\* through its write chain step by step.  No reranker is configured.  The
\* scorer reads the clock of the model in days.

\* config.retrieval and config.capture.noiseFilter, the defaults.
retrievalCfg ==
    [ limit |-> 10, minScore |-> 30, hybrid |-> TRUE, candidateMultiplier |-> 3,
      noiseFilter |-> TRUE ]

\* SKIP_PATTERNS.some(p => p.test(query.trim())), for queries without
\* capitals or punctuation.
shouldSkipQuery(query) ==
    query \in {"hi", "hello", "hey", "thanks", "thank", "thank you",
               "ok", "okay", "sure", "yes", "no", "bye", "goodbye"}

\* A second stored memory, close to DarkModeRow.
DarkThemesRow ==
    toRow([ id |-> "u2",
            headline |-> "The user likes dark themes",
            summary |-> "The user likes dark themes",
            content |-> "The user likes dark themes",
            category |-> "preferences", scope |-> defaultScope, importance |-> 50,
            createdAt |-> 0, updatedAt |-> 0, accessCount |-> 0, lastAccessedAt |-> 0,
            tags |-> <<>>, metadata |-> <<>>,
            vector |-> Some(embed("The user likes dark themes")) ])

\* The calls of retrieve: a query, and options.limit given or not.
RetrieveArgs ==
    { [query |-> q, limit |-> l] :
        q \in {"User prefers dark mode", "The user likes dark themes", "hi"},
        l \in {None, Some(1)} }

\* TinmemDB.fullTextSearch once its filter is valid: the rows the engine's
\* index matches, with their BM25 _score in hundredths (a row whose content
\* is the query scores 2, a row of a close text 1), best first; [] when the
\* engine rejects the query.
fullTextSearch(rows, query, options, indexed) ==
    LET matching == SelectSeq(Filtered(rows, options.scope, options.categories),
                        LAMBDA r : r.content = query
                                   \/ (r.content \in DarkModeTexts /\ query \in DarkModeTexts))
        exact == SelectSeq(matching, LAMBDA r : r.content = query)
        close == SelectSeq(matching, LAMBDA r : r.content # query)
        hits == [i \in 1..Len(exact) |-> [memory |-> fromRow(exact[i]), score |-> 200]]
                \o [i \in 1..Len(close) |-> [memory |-> fromRow(close[i]), score |-> 100]]
    IN  IF indexed THEN Slice(hits, options.limit) ELSE <<>>

\* Math.max(...bm25Results.map(r => r._score)) of a list that is not empty.
MaxScore(bm25Results) ==
    CHOOSE x \in {bm25Results[i].score : i \in 1..Len(bm25Results)} :
        \A i \in 1..Len(bm25Results) : bm25Results[i].score <= x

\* MemoryRetriever.mergeResults: the vector hits with vectorScore
\* 1 - _distance, then the BM25 hits, normalised by the best one: a hit that
\* was a vector hit too gets its bm25Score, another is added with
\* vectorScore 0.
mergeResults(vectorResults, bm25Results) ==
    LET bm25Of(id) ==
            LET found == SelectSeq(bm25Results, LAMBDA r : r.memory.id = id)
            IN  IF found = <<>> THEN 0
                ELSE IF MaxScore(bm25Results) > 0
                THEN (found[1].score * 100) \div MaxScore(bm25Results)
                ELSE 0
        fromVector == [i \in 1..Len(vectorResults) |->
            [ id |-> vectorResults[i].memory.id,
              importance |-> vectorResults[i].memory.importance,
              createdAt |-> vectorResults[i].memory.createdAt,
              lastAccessedAt |-> vectorResults[i].memory.lastAccessedAt,
              vectorScore |-> 100 - vectorResults[i].distance,
              bm25Score |-> bm25Of(vectorResults[i].memory.id) ]]
        others == SelectSeq(bm25Results, LAMBDA r :
                      \A i \in 1..Len(vectorResults) : vectorResults[i].memory.id # r.memory.id)
        fromBm25 == [i \in 1..Len(others) |->
            [ id |-> others[i].memory.id,
              importance |-> others[i].memory.importance,
              createdAt |-> others[i].memory.createdAt,
              lastAccessedAt |-> others[i].memory.lastAccessedAt,
              vectorScore |-> 0,
              bm25Score |-> bm25Of(others[i].memory.id) ]]
    IN  fromVector \o fromBm25

\* The RetrievalResult without its timing.
RetrievalResult(memories, totalFound) == [memories |-> memories, totalFound |-> totalFound]

\* retrieve from the merge on: score, filter by minScore, slice to limit.
Retrieved(vectorResults, bm25Results, limit, minScore, nowDay) ==
    LET merged == mergeResults(vectorResults, bm25Results)
        scored == score(merged, <<>>, nowDay)
        filtered == Slice(SelectSeq(scored, LAMBDA m :
                              m.score >= minScore * (ScoreUnit(<<>>) \div 100)),
                          limit)
    IN  RetrievalResult(filtered, Len(merged))

\* .catch(handler) without the handler: the rejection passes through.
catchNothing(error) == error

\* .catch(() => {}): the promise it returns is fulfilled whatever the error
\* of the promise it is called on; "" stands for fulfilled.
catchIgnore(error) == ""

\* The retriever before retrieve is called.
IdleRetriever ==
    [ pc |-> "idle", args |-> None, queryVector |-> None, vectorResults |-> <<>>,
      result |-> None, error |-> "",
      \* updateAccessCounts: its argument, the index of the for loop, the
      \* call of the Store it awaits, and its own promise
      ids |-> <<>>, i |-> 0, bump |-> 0, background |-> "none",
      \* history: the ids whose bump was requested; a rejected promise
      \* nobody handles
      requested |-> <<>>, unhandled |-> FALSE ]

\* A Store that is initialised and holds one or two memories.
InitRetrieve ==
    /\ tableExists = TRUE
    /\ table \in { <<DarkModeRow>>, <<DarkModeRow, DarkThemesRow>> }
    /\ nextUuid = Len(table) + 1
    /\ initPc = "done"
    /\ initialized = TRUE
    /\ ftsReady \in BOOLEAN
    /\ writeLock = InitialPromise
    /\ resolved = {InitialPromise}
    /\ calls = [c \in Slots |-> IdleCall]
    /\ now = 1
    /\ faults = 0
    /\ probe = None
    /\ manager = None
    /\ factory = None
    /\ retriever = IdleRetriever

\* retrieve(query, options), up to the embedding request.
RetrieveCall ==
    /\ retriever.pc = "idle"
    /\ \E args \in RetrieveArgs :
          retriever' =
              IF retrievalCfg.noiseFilter /\ shouldSkipQuery(args.query)
              THEN [retriever EXCEPT !.pc = "done", !.args = Some(args),
                                     !.result = Some(RetrievalResult(<<>>, 0))]
              ELSE [retriever EXCEPT !.pc = "embed", !.args = Some(args)]
    /\ UNCHANGED <<dbVars, probe, manager, factory>>

\* retrieve: embedding.embed(query) settles; vectorSearch is requested.
RetrieveEmbed ==
    /\ retriever.pc = "embed"
    /\ \/ /\ retriever' = [retriever EXCEPT
                !.pc = "vectorSearch",
                !.queryVector = Some(embed(retriever.args[1].query))]
          /\ UNCHANGED faults
       \/ /\ MayFault
          /\ faults' = faults + 1
          /\ retriever' = [retriever EXCEPT !.pc = "done", !.error = EmbedFailed]
    /\ UNCHANGED <<tableExists, table, initPc, initialized, ftsReady, writeLock, resolved,
                   calls, now, nextUuid, probe, manager, factory>>

\* options.limit ?? config.retrieval.limit
RetrieveLimit(args) == IF args.limit # None THEN args.limit[1] ELSE retrievalCfg.limit

\* The options retrieve passes to both searches.
RetrieveSearchOptions(args) ==
    [limit |-> RetrieveLimit(args) * retrievalCfg.candidateMultiplier,
     scope |-> None, categories |-> <<>>, minScore |-> None]

\* this.db.incrementAccessCount(id), up to `await prev`, as call c.
RequestIncrement(c, id) ==
    LET call == [Begin("incrementAccessCount") EXCEPT !.id = id]
    IN  IF ~initialized
        THEN /\ calls' = [calls EXCEPT ![c] = Thrown(Begin("incrementAccessCount"), NotInitialized)]
             /\ UNCHANGED writeLock
        ELSE IF ~assertUuid(id)
        THEN /\ calls' = [calls EXCEPT ![c] = Thrown(call, "Invalid UUID")]
             /\ UNCHANGED writeLock
        ELSE /\ calls' = [calls EXCEPT ![c] = ChainedCall(call)]
             /\ writeLock' = c

\* retrieve from the merge to its return: the result is built,
\* updateAccessCounts(ids) runs up to its first await and retrieve returns.
RetrieveReturn(vectorResults, bm25Results) ==
    LET args == retriever.args[1]
        result == Retrieved(vectorResults, bm25Results, RetrieveLimit(args),
                            retrievalCfg.minScore, now)
        ids == Ids(result.memories)
        returned == [retriever EXCEPT !.pc = "done", !.vectorResults = vectorResults,
                                      !.result = Some(result)]
    IN  IF result.totalFound = 0
        THEN /\ retriever' = returned
             /\ UNCHANGED <<calls, writeLock>>
        ELSE IF ids = <<>>
        THEN /\ retriever' = [returned EXCEPT !.background = "fulfilled"]
             /\ UNCHANGED <<calls, writeLock>>
        ELSE \E c \in Slots :
                /\ NextSlot(c)
                /\ RequestIncrement(c, ids[1])
                /\ retriever' = [returned EXCEPT
                      !.ids = ids, !.i = 1, !.bump = c, !.background = "awaiting",
                      !.requested = <<ids[1]>>]

\* retrieve: db.vectorSearch settles; fullTextSearch is requested when
\* hybrid, else retrieve runs to its return.
RetrieveVectorSearch ==
    LET args == retriever.args[1]
        vectorResults == vectorSearch(table, retriever.queryVector[1], RetrieveSearchOptions(args))
    IN  /\ retriever.pc = "vectorSearch"
        /\ IF retrievalCfg.hybrid
           THEN /\ retriever' = [retriever EXCEPT !.pc = "fullTextSearch",
                                                  !.vectorResults = vectorResults]
                /\ UNCHANGED <<calls, writeLock>>
           ELSE RetrieveReturn(vectorResults, <<>>)
        /\ UNCHANGED <<tableExists, table, initPc, initialized, ftsReady, resolved, now,
                       nextUuid, faults, probe, manager, factory>>

\* retrieve: db.fullTextSearch settles and retrieve runs to its return.
RetrieveFullTextSearch ==
    LET args == retriever.args[1]
        bm25Results == fullTextSearch(table, args.query, RetrieveSearchOptions(args), ftsReady)
    IN  /\ retriever.pc = "fullTextSearch"
        /\ RetrieveReturn(retriever.vectorResults, bm25Results)
        /\ UNCHANGED <<tableExists, table, initPc, initialized, ftsReady, resolved, now,
                       nextUuid, faults, probe, manager, factory>>

\* updateAccessCounts: the promise of incrementAccessCount(id).catch(...)
\* settles; the loop requests the bump of the next id or ends.  A
\* rejection the await sees ends the function, whose promise nobody
\* handles.
RetrieveBumpSettled ==
    LET awaited == catchIgnore(calls[retriever.bump].error)
    IN  /\ retriever.background = "awaiting"
        /\ calls[retriever.bump].pc = "done"
        /\ IF awaited # ""
           THEN /\ retriever' = [retriever EXCEPT !.background = "rejected", !.bump = 0,
                                                  !.unhandled = TRUE]
                /\ UNCHANGED <<calls, writeLock>>
           ELSE IF retriever.i = Len(retriever.ids)
           THEN /\ retriever' = [retriever EXCEPT !.background = "fulfilled", !.bump = 0]
                /\ UNCHANGED <<calls, writeLock>>
           ELSE \E c \in Slots :
                   /\ NextSlot(c)
                   /\ RequestIncrement(c, retriever.ids[retriever.i + 1])
                   /\ retriever' = [retriever EXCEPT
                         !.i = @ + 1, !.bump = c,
                         !.requested = Append(@, retriever.ids[retriever.i + 1])]
        /\ UNCHANGED <<tableExists, table, initPc, initialized, ftsReady, resolved, now,
                       nextUuid, faults, probe, manager, factory>>

NextRetrieve ==
    \/ RetrieveCall
    \/ RetrieveEmbed
    \/ RetrieveVectorSearch
    \/ RetrieveFullTextSearch
    \/ RetrieveBumpSettled
    \/ \E c \in Slots :
          \/ WithWriteLockEnter(c)
          \/ IncrementGetById(c)
          \/ IncrementDelete(c)
          \/ IncrementAdd(c)
          \/ RollbackAdd(c)

SpecRetrieve == InitRetrieve /\ [][NextRetrieve]_vars

\* The bump calls of the Store that ended in an error.
FailedBumps ==
    { c \in Slots : /\ calls[c].op = "incrementAccessCount"
                    /\ calls[c].pc = "done"
                    /\ calls[c].error # "" }

\* C16: retrieve requests one incrementAccessCount per returned id without
\* awaiting it.  The result is returned while the first bump is still
\* waiting for the write chain and never changes afterwards, whatever the
\* bumps do; the error of a bump never becomes the error of retrieve or an
\* unhandled rejection; and the bumps are requested for the returned ids in
\* order, a failed bump being followed by the bump of the next id.
C16_BumpsBestEffort ==
    /\ [][ /\ (retriever.pc # "done" /\ retriever'.pc = "done")
              => \A c \in Slots : calls'[c].pc \in {"idle", "await_prev"}
           /\ retriever.pc = "done"
              => /\ retriever'.result = retriever.result
                 /\ retriever'.error = retriever.error ]_vars
    /\ [] ( /\ ~retriever.unhandled
            /\ retriever.background # "rejected"
            /\ retriever.error \in {"", EmbedFailed}
            /\ retriever.background = "awaiting"
               => retriever.requested = SubSeq(retriever.ids, 1, retriever.i)
            /\ retriever.background = "fulfilled"
               => /\ retriever.result # None
                  /\ retriever.requested = Ids(retriever.result[1].memories)
                  /\ \A i \in 1..Len(retriever.requested) :
                        \E c \in Slots : /\ calls[c].op = "incrementAccessCount"
                                         /\ calls[c].id = retriever.requested[i] )

\* A bump failed and the bump of the next returned id was requested after it.
C16_Witness ==
    /\ retriever.pc = "done"
    /\ retriever.result # None
    /\ Len(retriever.result[1].memories) = 2
    /\ retriever.background = "awaiting"
    /\ retriever.i = 2
    /\ calls[retriever.bump].id = retriever.ids[2]
    /\ \E c \in FailedBumps : calls[c].id = retriever.ids[1]

\* ------------------------------------------ claims about deduplication

\* The rows of a category.
CategoryRows(rows, category) == SelectSeq(rows, LAMBDA r : r.category = category)

\* The rows of the category and scope of a store call whose similarity to
\* the content of the call reaches similarityThreshold.
SimilarStored(rows, args, scope) ==
    SelectSeq(rows, LAMBDA r :
        /\ r.category = args.category
        /\ r.scope = scope
        /\ VectorScore(embed(args.content), r) >= similarityThreshold)

\* The elements of a list.
Elements(seq) == {seq[i] : i \in 1..Len(seq)}

\* A store call that returned, was the only call made, met no failure of a
\* service, and found a similar memory of its category and scope, the
\* category not being append-only and the strategy being vector.
VectorDuplicateStore(c) ==
    /\ manager.strategy = "vector"
    /\ manager.calls[c].op = "store"
    /\ manager.calls[c].pc = "done"
    /\ manager.calls[c].error = ""
    /\ faults = 0
    /\ \A d \in Slots \ {c} : manager.calls[d].op = "none"
    /\ manager.calls[c].args[1].category \in VALID_CATEGORIES \ {"events", "cases"}
    /\ SimilarStored(manager.calls[c].before, manager.calls[c].args[1],
                     manager.calls[c].scope) # <<>>

\* C19: with the strategy vector, a store for a category that is not
\* append-only, called while a memory of the same category and scope is
\* similar to the content, does not increase the number of rows of the
\* category, and the memory that was there survives with tags that include
\* its own and every tag of options.tags.
C19_VectorDuplicateMerged ==
    \A c \in Slots :
        VectorDuplicateStore(c) =>
            LET call == manager.calls[c]
                args == call.args[1]
                given == IF args.tags # None THEN Elements(args.tags[1]) ELSE {}
            IN  /\ Len(CategoryRows(table, args.category))
                      <= Len(CategoryRows(call.before, args.category))
                /\ \A k \in 1..Len(call.before) :
                      call.before[k] \in Elements(SimilarStored(call.before, args, call.scope))
                      => \E i \in 1..Len(table) :
                            /\ table[i].id = call.before[k].id
                            /\ Elements(fromRow(call.before[k]).tags) \cup given
                                  \subseteq Elements(fromRow(table[i]).tags)

\* C20: for a candidate of the category events or cases, deduplicate returns
\* CREATE without a vectorSearch or a request to the LLM, and the insert of
\* such a candidate, when it succeeds, adds exactly one row to the category.
C20_AppendOnlyAlwaysCreates ==
    [][ \A c \in Slots :
          LET call == manager.calls[c]
              after == manager'.calls[c]
          IN  /\ ( /\ call.pc = "dedup"
                   /\ after # call
                   /\ call.extracted[call.i].category \in {"events", "cases"} )
                 => /\ after.pc = "create"
                    /\ after.dedup = Some(Decided("CREATE", "Append-only category"))
                    /\ after.searches = call.searches
                    /\ after.llmDecisions = call.llmDecisions
              /\ ( /\ call.pc = "create"
                   /\ Len(after.stored) > Len(call.stored)
                   /\ call.extracted[call.i].category \in {"events", "cases"} )
                 => /\ call.searches = 0
                    /\ call.llmDecisions = 0
                    /\ Len(CategoryRows(table', call.extracted[call.i].category))
                          = Len(CategoryRows(table, call.extracted[call.i].category)) + 1 ]_vars

\* The same sentence was stored twice as a case: two rows hold it.
C20_Witness ==
    \E c \in Slots :
        /\ manager.calls[c].op = "store"
        /\ manager.calls[c].pc = "done"
        /\ manager.calls[c].args[1].category = "cases"
        /\ Len(manager.calls[c].stored) = 1
        /\ manager.calls[c].searches = 0
        /\ \E k \in 1..Len(manager.calls[c].before) :
              /\ manager.calls[c].before[k].category = "cases"
              /\ manager.calls[c].before[k].scope = manager.calls[c].stored[1].scope
              /\ manager.calls[c].before[k].content = manager.calls[c].stored[1].content
        /\ Len(CategoryRows(table, "cases")) = 2

\* ===================================================== Scorer weights (C30)
\*
\* The weights MemoryScorer.score determines (src/unnamed/part_001:33-43),
\* for configurations with weights in hundredths.

\* The weights a configuration may hold.
WeightValues == {0, 10, 30, 40, 60, 100}

WeightConfigs ==
    { [scoringCfg EXCEPT !.vectorWeight = v, !.bm25Weight = b] : v \in WeightValues, b \in WeightValues }

InitWeights ==
    /\ tableExists = FALSE
    /\ table = <<>>
    /\ nextUuid = 1
    /\ initPc = "new"
    /\ initialized = FALSE
    /\ ftsReady = FALSE
    /\ writeLock = InitialPromise
    /\ resolved = {InitialPromise}
    /\ calls = [c \in Slots |-> IdleCall]
    /\ now = ScoreDay
    /\ faults = 0
    /\ manager = None
    /\ factory = None
    /\ retriever = None
    /\ \E cfg \in WeightConfigs, rerankScores \in RerankMaps :
          probe = [ op |-> "weights", cfg |-> cfg,
                    rerankScores |-> rerankScores, weights |-> None ]

\* The first lines of scorer.score: the weights of this call.
WeightsCall ==
    /\ probe.weights = None
    /\ probe' = [probe EXCEPT !.weights = Some(normalizeWeights(probe.cfg, probe.rerankScores))]
    /\ UNCHANGED <<dbVars, manager, factory, retriever>>

NextWeights == WeightsCall

SpecWeights == InitWeights /\ [][NextWeights]_vars

\* The weights were determined for a call without rerank scores.
WeightsWithoutRerank ==
    /\ probe.weights # None
    /\ NoRerank(probe.rerankScores)

\* C30 (as amended): with no rerank scores the reranker weight is 0 and the
\* vector and BM25 weights used sum to 1, keeping the ratio of the
\* configured weights, or are (0.5, 0.5) when both configured weights are 0.
C30_WeightsSumToOne ==
    WeightsWithoutRerank =>
        LET w == probe.weights[1]
        IN  /\ w.rerankerWeight = 0
            /\ w.vectorWeight + w.bm25Weight = w.total
            /\ w.vectorWeight * probe.cfg.bm25Weight = w.bm25Weight * probe.cfg.vectorWeight
            /\ probe.cfg.vectorWeight + probe.cfg.bm25Weight = 0
                  => /\ 2 * w.vectorWeight = w.total
                     /\ 2 * w.bm25Weight = w.total

\* The weights of a call without rerank scores under a configuration whose
\* vector and BM25 weights do not sum to 1.
C30_Witness ==
    /\ WeightsWithoutRerank
    /\ probe.cfg.vectorWeight = 40
    /\ probe.cfg.bm25Weight = 30
    /\ probe.weights[1].vectorWeight * 7 = probe.weights[1].total * 4

\* C30 as stated: with no rerank scores the vector and BM25 weights used sum
\* to the configured vectorWeight + bm25Weight (in hundredths).
C30_WeightsSumToConfigured ==
    (WeightsWithoutRerank /\ probe.cfg.vectorWeight + probe.cfg.bm25Weight > 0) =>
        LET w == probe.weights[1]
        IN  (w.vectorWeight + w.bm25Weight) * 100
              = (probe.cfg.vectorWeight + probe.cfg.bm25Weight) * w.total

\* ================================================ Counts of deletions (C28)

\* The call c is a deleteMany or a deleteByScope whose engine delete settles
\* in this step.
BulkDeleteSettles(c) ==
    /\ calls[c].op \in {"deleteMany", "deleteByScope"}
    /\ calls[c].pc = "delete"
    /\ calls'[c].pc = "done"
    /\ calls'[c].result # None

\* C28: deleteMany and deleteByScope return the number of rows they removed:
\* the result of the call is the number of rows the table lost in the step
\* in which the engine's delete settled.
C28_DeleteCountsRowsRemoved ==
    [][\A c \in Slots :
          BulkDeleteSettles(c) => calls'[c].result[1] = Len(table) - Len(table')]_vars

\* The same for deleteByScope alone, whose count is taken under the write
\* lock, just before its delete.
DeleteByScopeCountsRowsRemoved ==
    [][\A c \in Slots :
          (BulkDeleteSettles(c) /\ calls[c].op = "deleteByScope")
              => calls'[c].result[1] = Len(table) - Len(table')]_vars

\* =============================================== Extractor noise filter (C25)
\*
\* MemoryExtractor.extractFromTurn (src/src/memory/extractor.ts:27-62) with
\* shouldSkip (126-145) and isNoise (src/src/prompts.ts:216-228).  The
\* messages of the model have no capitals, and none starts or ends with a
\* blank except PaddedGreeting.

\* config.capture, the defaults of config.ts; skipPatterns is the default
\* list, given by the words and the closing marks of its one pattern.
captureCfg ==
    [ noiseFilter |-> TRUE, minContentLength |-> 20,
      skipWords |-> {"hi", "hello", "hey", "thanks", "thank you", "ok", "okay",
                     "yes", "no", "sure", "great"},
      skipMarks |-> {"", ".", "!", "?"} ]

\* The alternatives of NOISE_PATTERNS; each pattern ends in [!.,]?\s*$.
NOISE_WORDS ==
    { "hi", "hello", "hey", "good morning", "good evening", "good afternoon",
      "thanks", "thank you", "thx", "ty",
      "ok", "okay", "sure", "alright", "got it", "understood", "noted",
      "yes", "no", "yeah", "nope", "yep",
      "great", "awesome", "perfect", "excellent", "wonderful",
      "bye", "goodbye", "see you", "cya" }

PaddedGreeting == "   hello   "

\* text.trim(), for the messages of a turn.
trimMessage(text) == IF text = PaddedGreeting THEN "hello" ELSE text

\* NOISE_PATTERNS.some(p => p.test(trimmed)), for a trimmed text.
MatchesNoisePattern(trimmed) ==
    \E word \in NOISE_WORDS, mark \in {"", "!", ".", ","} : trimmed = word \o mark

\* isNoise(text)
isNoise(text) ==
    LET trimmed == trimMessage(text)
    IN  MatchesNoisePattern(trimmed) \/ Len(trimmed) < 10

\* MemoryExtractor.shouldSkip
shouldSkip(cfg, userMessage, assistantResponse) ==
    \/ isNoise(userMessage)
    \/ \E word \in cfg.skipWords, mark \in cfg.skipMarks :
          trimMessage(userMessage) = word \o mark
    \/ Len(userMessage) + Len(assistantResponse) < cfg.minContentLength * 2

\* The user messages of a turn, of 2, 11, 13, 9, 15, 19 and 45 characters.
UserMessages ==
    { "hi", PaddedGreeting, "good morning!", "i use vim", "i use vim daily",
      "i moved to lisbon !", "i am a senior typescript developer in lisbon." }

\* The assistant's responses, of 0, 6 and 45 characters.
AssistantResponses ==
    { "", "noted.", "great, i can help you with typescript in vim." }

CaptureConfigs ==
    { [captureCfg EXCEPT !.noiseFilter = f, !.minContentLength = n] :
        f \in BOOLEAN, n \in {10, captureCfg.minContentLength} }

InitExtract ==
    /\ tableExists = FALSE
    /\ table = <<>>
    /\ nextUuid = 1
    /\ initPc = "new"
    /\ initialized = FALSE
    /\ ftsReady = FALSE
    /\ writeLock = InitialPromise
    /\ resolved = {InitialPromise}
    /\ calls = [c \in Slots |-> IdleCall]
    /\ now = 0
    /\ faults = 0
    /\ manager = None
    /\ factory = None
    /\ retriever = None
    /\ \E cfg \in CaptureConfigs, userMessage \in UserMessages,
          assistantResponse \in AssistantResponses :
          probe = [ op |-> "extractFromTurn", cfg |-> cfg,
                    userMessage |-> userMessage,
                    assistantResponse |-> assistantResponse,
                    pc |-> "new", llmCalls |-> 0, result |-> None ]

\* extractFromTurn up to its return of [] or to the await of llm.complete.
ExtractFromTurnCall ==
    /\ probe.pc = "new"
    /\ probe' =
          IF probe.cfg.noiseFilter
             /\ shouldSkip(probe.cfg, probe.userMessage, probe.assistantResponse)
          THEN [probe EXCEPT !.pc = "done", !.result = Some(<<>>)]
          ELSE [probe EXCEPT !.pc = "llm", !.llmCalls = @ + 1]
    /\ UNCHANGED <<dbVars, manager, factory, retriever>>

\* extractFromTurn: llm.complete settles with an answer, which is validated,
\* or with an error, which gives [].
ExtractFromTurnLlm ==
    /\ probe.pc = "llm"
    /\ \/ \E raw \in RawResponses :
             probe' = [probe EXCEPT !.pc = "done", !.result = Some(validateExtracted(raw))]
       \/ probe' = [probe EXCEPT !.pc = "done", !.result = Some(<<>>)]
    /\ UNCHANGED <<dbVars, manager, factory, retriever>>

NextExtract == ExtractFromTurnCall \/ ExtractFromTurnLlm

SpecExtract == InitExtract /\ [][NextExtract]_vars

\* C25: with the noise filter on, a turn whose user message is shorter than
\* minContentLength never reaches the LLM and extractFromTurn returns [],
\* whatever the length of the assistant's response.
C25_ShortUserMessageSkipped ==
    ( /\ probe.cfg.noiseFilter
      /\ Len(probe.userMessage) < probe.cfg.minContentLength
      /\ probe.pc # "new" )
        => /\ probe.llmCalls = 0
           /\ probe.pc = "done"
           /\ probe.result = Some(<<>>)

\* With the noise filter on, a turn whose user message is noise, or whose two
\* messages together are shorter than twice minContentLength, never reaches
\* the LLM.
NoiseTurnSkipped ==
    ( /\ probe.cfg.noiseFilter
      /\ \/ isNoise(probe.userMessage)
         \/ Len(probe.userMessage) + Len(probe.assistantResponse)
               < 2 * probe.cfg.minContentLength
      /\ probe.pc # "new" )
        => /\ probe.llmCalls = 0
           /\ probe.result = Some(<<>>)

\* ============================================= Export and import (C26)

\* In this step the import call c inserted the row of ExportedMemory, a
\* memory as export wrote it.
ImportedExported(c) ==
    /\ manager.calls[c].pc = "import_insert"
    /\ manager.calls[c].extracted[manager.calls[c].i] = ExportedMemory
    /\ manager'.calls[c].imported = manager.calls[c].imported + 1
    /\ Len(table') = Len(table) + 1

\* The memory a later export reads from the last row of the table.
LastExported(rows) == fromRow(rows[Len(rows)])

\* C26: a memory that import stores equals the exported memory it was read
\* from in headline, summary, content, category, importance, tags, metadata
\* and accessCount, so that a second export returns it.
C26_ImportKeepsExportedFields ==
    [][\A c \in Slots :
          ImportedExported(c) =>
              \A field \in {"headline", "summary", "content", "category", "importance",
                            "tags", "metadata", "accessCount"} :
                  LastExported(table')[field] = ExportedMemory[field]]_vars

\* The same without accessCount.
ImportKeepsContentFields ==
    [][\A c \in Slots :
          ImportedExported(c) =>
              \A field \in {"headline", "summary", "content", "category", "importance",
                            "tags", "metadata"} :
                  LastExported(table')[field] = ExportedMemory[field]]_vars

\* ================================================== MemoryManager.reembed
\*
\* reembed (src/src/memory/manager.ts:319-337) next to forget (212-214).
\* As in SpecManager a method of the Store is one step; between two awaits
\* of reembed another call of the manager may run.

\* A stored memory of another scope.
AgentRow ==
    toRow([ id |-> "u2",
            headline |-> "Leak", summary |-> "Leak fixed",
            content |-> "Fixed a memory leak in component X.",
            category |-> "cases", scope |-> "agent:a", importance |-> 70,
            createdAt |-> 0, updatedAt |-> 0, accessCount |-> 3, lastAccessedAt |-> 0,
            tags |-> <<"bug">>, metadata |-> <<>>,
            vector |-> Some(embed("an older embedding model")) ])

\* A memory of the default scope whose vector an older model made.
StaleRow == [DarkModeRow EXCEPT !.vector = Some(embed("an older embedding model"))]

\* The scope argument of reembed.
ReembedScopes == { None, Some("global"), Some("agent:a"), Some("agent:") }

\* After init(), with memories stored at time 0.
InitReembed ==
    /\ tableExists = TRUE
    /\ table \in { <<>>, <<StaleRow>>, <<StaleRow, AgentRow>> }
    /\ nextUuid = Len(table) + 1
    /\ initPc = "done"
    /\ initialized = TRUE
    /\ ftsReady = TRUE
    /\ writeLock = InitialPromise
    /\ resolved = {InitialPromise}
    /\ calls = [c \in Slots |-> IdleCall]
    /\ now = 1
    /\ faults = 0
    /\ probe = None
    /\ factory = None
    /\ retriever = None
    /\ manager = [strategy |-> "vector", calls |-> [c \in Slots |-> IdleManagerCall]]

\* reembed: the loop moves to the next memory, or returns `count`.
NextReembed(call) ==
    IF call.i < Len(call.extracted)
    THEN [call EXCEPT !.i = @ + 1, !.pc = "reembed_embed", !.vector = None]
    ELSE [call EXCEPT !.pc = "done", !.result = Some(call.count)]

\* reembed(scope) up to the end of db.getAllForExport(scope), which lists
\* the memories of the scope, or all of them; a scope that is no scope
\* makes list throw.
ReembedCall(c) ==
    /\ ManagerNextSlot(c)
    /\ \E scope \in ReembedScopes :
          LET call == [IdleManagerCall EXCEPT
                          !.op = "reembed", !.args = Some([scope |-> scope]),
                          !.before = table]
              listed == Filtered(table, scope, <<>>)
          IN  manager' = [manager EXCEPT !.calls[c] =
                  IF FilterError(scope, <<>>) # ""
                  THEN [call EXCEPT !.pc = "done", !.error = FilterError(scope, <<>>)]
                  ELSE NextReembed([call EXCEPT
                          !.extracted = [i \in 1..Len(listed) |-> fromRow(listed[i])]])]
    /\ UNCHANGED <<storeIdle, table, nextUuid, faults>>

\* reembed: embedding.embed of the memory settles; an error is caught and
\* the loop continues.
ReembedEmbed(c) ==
    LET call == manager.calls[c]
        m == call.extracted[call.i]
    IN  /\ call.pc = "reembed_embed"
        /\ \/ /\ manager' = [manager EXCEPT !.calls[c] =
                    [call EXCEPT !.vector = Some(embed(EmbedText(m.headline, m.summary, m.content))),
                                 !.embeds = @ + 1, !.pc = "reembed_update"]]
              /\ UNCHANGED faults
           \/ /\ MayFault
              /\ faults' = faults + 1
              /\ manager' = [manager EXCEPT !.calls[c] =
                    NextReembed([call EXCEPT !.embeds = @ + 1])]
        /\ UNCHANGED <<storeIdle, table, nextUuid>>

\* reembed: db.update(m.id, { vector }) settles; its result is not read and
\* count++ follows; an error is caught and the loop continues.
ReembedUpdate(c) ==
    LET call == manager.calls[c]
        m == call.extracted[call.i]
        updates == [NoUpdates EXCEPT !.vector = call.vector]
    IN  /\ call.op = "reembed"
        /\ call.pc = "reembed_update"
        /\ \E outcome \in UpdateOutcomes(table, m.id, updates, now, MayFault) :
              /\ table' = outcome.table
              /\ faults' = IF outcome.fault THEN faults + 1 ELSE faults
              /\ manager' = [manager EXCEPT !.calls[c] =
                    IF outcome.error = ""
                    THEN NextReembed([call EXCEPT !.count = @ + 1])
                    ELSE NextReembed(call)]
        /\ UNCHANGED <<storeIdle, nextUuid>>

\* forget(id): db.delete(id) reads the row and deletes it, true, or finds
\* none, false.
Forget(c) ==
    /\ ManagerNextSlot(c)
    /\ \E id \in {"u1", "u2"} :
          /\ table' = DeleteById(table, id)
          /\ manager' = [manager EXCEPT !.calls[c] =
                [IdleManagerCall EXCEPT
                    !.op = "forget", !.args = Some([id |-> id]), !.pc = "done",
                    !.result = Some(QueryById(table, id) # <<>>)]]
    /\ UNCHANGED <<storeIdle, nextUuid, faults>>

NextReembedSpec ==
    \E c \in Slots :
        \/ ReembedCall(c)
        \/ ReembedEmbed(c)
        \/ ReembedUpdate(c)
        \/ Forget(c)

SpecReembed == InitReembed /\ [][NextReembedSpec]_vars

\* ------------------------------------------------- claims about reembed

\* A row without its vector and its updatedAt.
Strip(row) == [field \in DOMAIN row \ {"vector", "updatedAt"} |-> row[field]]

StrippedRows(rows) == { Strip(rows[i]) : i \in 1..Len(rows) }

\* The rows outside the scope a reembed call was given.
OutOfScope(rows, scope) ==
    { rows[i] : i \in { j \in 1..Len(rows) : ScopeGiven(scope) /\ rows[j].scope # scope[1] } }

\* The call c is a reembed that took a step.
ReembedStep(c) ==
    /\ manager'.calls[c].op = "reembed"
    /\ manager'.calls[c] # manager.calls[c]

\* C27: a step of reembed(scope) changes nothing but the vector and the
\* updatedAt of memories of the scope: no row is added or removed, every
\* other field of every row keeps its value, and the rows of other scopes
\* are left as they are.
C27_ReembedChangesOnlyVectors ==
    [][\A c \in Slots :
          ReembedStep(c) =>
              /\ Len(table') = Len(table)
              /\ StrippedRows(table') = StrippedRows(table)
              /\ OutOfScope(table', manager'.calls[c].args[1].scope)
                    = OutOfScope(table, manager'.calls[c].args[1].scope)]_vars

\* The same for the steps in which no service fails; the vector written is
\* the embedding of the row's own text, so that a second reembed writes the
\* same vector again.
ReembedWithoutFailure ==
    [][\A c \in Slots :
          (ReembedStep(c) /\ faults' = faults) =>
              /\ Len(table') = Len(table)
              /\ StrippedRows(table') = StrippedRows(table)
              /\ OutOfScope(table', manager'.calls[c].args[1].scope)
                    = OutOfScope(table, manager'.calls[c].args[1].scope)
              /\ \A i \in 1..Len(table') :
                    table'[i] \in { table[j] : j \in 1..Len(table) }
                    \/ table'[i].vector
                         = Some(embed(EmbedText(table'[i].headline, table'[i].summary,
                                                table'[i].content)))]_vars

\* C29: reembed counts a memory only when its vector was rewritten: in the
\* step that raises `count`, the table comes to hold the row of that memory
\* with the vector just computed.
C29_ReembedCountsRewrittenRows ==
    [][\A c \in Slots :
          (ReembedStep(c) /\ manager'.calls[c].count = manager.calls[c].count + 1) =>
              LET call == manager.calls[c]
              IN  \E i \in 1..Len(table') :
                     /\ table'[i].id = call.extracted[call.i].id
                     /\ WellFormed(table'[i])
                     /\ table'[i].vector = call.vector]_vars

\* A memory whose embedding fails, or whose update throws, is not counted
\* and does not end the loop.
ReembedSkipsFailures ==
    [][\A c \in Slots :
          (ReembedStep(c) /\ faults' = faults + 1) =>
              /\ manager'.calls[c].count = manager.calls[c].count
              /\ manager'.calls[c].error = ""]_vars

\* ============================================== The memory_update tool (C24)
\*
\* TinmemTools.memory_update (src/src/tools/index.ts:241-271) over
\* MemoryManager.update and TinmemDB.update.  The tool builds `updates` with
\* the five keys content, summary, headline, importance and tags, whatever
\* the input holds.

\* The optional properties of a MemoryUpdateInput.
ToolKeys == {"content", "summary", "headline", "importance", "tags"}

\* A MemoryUpdateInput: each optional property is present (Some) or not.
NoToolInput ==
    [ content |-> None, summary |-> None, headline |-> None,
      importance |-> None, tags |-> None ]

MemoryUpdateInputs ==
    { [NoToolInput EXCEPT !.importance = Some(90)],
      [NoToolInput EXCEPT !.content = Some("Prefers light mode")],
      [NoToolInput EXCEPT !.headline = Some("Theme"), !.tags = Some(<<"look">>)] }

\* { content: input.content, summary: input.summary, headline: input.headline,
\*   importance: input.importance, tags: input.tags }
ToolUpdates(input) ==
    [ NoUpdates EXCEPT
        !.content = input.content, !.summary = input.summary,
        !.headline = input.headline, !.importance = input.importance,
        !.tags = input.tags,
        !.undefinedKeys = { key \in ToolKeys : input[key] = None } ]

\* After init(), with one or two memories stored at time 0.
InitTool ==
    /\ tableExists = TRUE
    /\ table \in { <<DarkModeRow>>, <<DarkModeRow, AgentRow>> }
    /\ nextUuid = Len(table) + 1
    /\ initPc = "done"
    /\ initialized = TRUE
    /\ ftsReady = TRUE
    /\ writeLock = InitialPromise
    /\ resolved = {InitialPromise}
    /\ calls = [c \in Slots |-> IdleCall]
    /\ now = 1
    /\ faults = 0
    /\ probe = None
    /\ factory = None
    /\ retriever = None
    /\ manager = [strategy |-> "vector", calls |-> [c \in Slots |-> IdleManagerCall]]

\* memory_update(input), up to the first await of manager.update.
MemoryUpdateCall(c) ==
    /\ ManagerNextSlot(c)
    /\ \E id \in ValidIdArgs, input \in MemoryUpdateInputs :
          LET updates == ToolUpdates(input)
          IN  manager' = [manager EXCEPT !.calls[c] =
                  [IdleManagerCall EXCEPT
                      !.op = "update", !.args = Some([id |-> id, updates |-> updates]),
                      !.before = table,
                      !.pc = IF TextChanged(updates) THEN "update_read" ELSE "update_write"]]
    /\ UNCHANGED <<storeIdle, table, nextUuid, faults>>

NextTool ==
    \E c \in Slots :
        \/ MemoryUpdateCall(c)
        \/ ManagerUpdateCall(c)
        \/ ManagerUpdateGetById(c)
        \/ ManagerUpdateEmbed(c)
        \/ ManagerUpdateWrite(c)

SpecTool == InitTool /\ [][NextTool]_vars

\* ------------------------------------------------- claims about update

\* The properties update never changes, and those a caller may supply.
FixedKeys == {"id", "category", "scope", "createdAt", "accessCount", "lastAccessedAt"}

SuppliableKeys == {"headline", "summary", "content", "importance", "tags", "metadata"}

\* The call c is an update whose db.update settles in this step, on a row
\* that exists.
UpdateWrites(c) ==
    /\ manager.calls[c].op = "update"
    /\ manager.calls[c].pc = "update_write"
    /\ manager'.calls[c].pc = "done"
    /\ QueryById(table, manager.calls[c].args[1].id) # <<>>

\* The row of id after the step has the value of the row before it for key.
KeepsKey(id, key) ==
    /\ QueryById(table', id) # <<>>
    /\ key \in DOMAIN QueryById(table', id)[1]
    /\ QueryById(table', id)[1][key] = QueryById(table, id)[1][key]

\* What C24 states of the step in which the db.update of the call c settles.
UpdateKeepsTheRest(c) ==
    LET id == manager.calls[c].args[1].id
        updates == manager.calls[c].args[1].updates
    IN  /\ \A key \in FixedKeys : KeepsKey(id, key)
        /\ \A key \in SuppliableKeys : updates[key] = None => KeepsKey(id, key)
        /\ DeleteById(table', id) = DeleteById(table, id)

\* The db.update of the call c settles in this step without a failure of a
\* service, on a row with a value in every column, with the vector of the
\* re-embedded text.
UpdateWritesCleanly(c) ==
    /\ UpdateWrites(c)
    /\ manager.calls[c].vector # None
    /\ DOMAIN QueryById(table, manager.calls[c].args[1].id)[1] = RecordKeys
    /\ faults' = faults

\* C24: update(id, delta) leaves id, category, scope, createdAt, accessCount
\* and lastAccessedAt of the row as they were, and every field of headline,
\* summary, content, importance, tags and metadata that delta does not
\* supply, also when delta holds the key of an omitted field with the value
\* undefined, as the memory_update tool builds it; no other row changes.
\* Stated of the updates that change a text, while no service fails.
C24_UpdateKeepsUnsuppliedFields ==
    [][\A c \in Slots : UpdateWritesCleanly(c) => UpdateKeepsTheRest(c)]_vars

\* The same for updates that hold only the keys they supply.
UpdateOfGivenKeysKeepsTheRest ==
    [][\A c \in Slots :
          (UpdateWritesCleanly(c) /\ manager.calls[c].args[1].updates.undefinedKeys = {})
              => UpdateKeepsTheRest(c)]_vars

\* ===================================================== Deduplication at work
\*
\* processTurn and processSession over a store that holds memories close to
\* the candidate: storeExtracted (src/src/memory/manager.ts:88-150) with
\* deduplicate and llmDecide (src/unnamed/part_001:170-298).

\* The row an earlier processTurn left when it created the memory of
\* DarkItem: its vector is the embedding of the candidate's own text.
DarkItemRow ==
    toRow([ id |-> "u2",
            headline |-> "Dark themes", summary |-> "Likes dark themes",
            content |-> "The user likes dark themes",
            category |-> "preferences", scope |-> defaultScope, importance |-> 100,
            createdAt |-> 0, updatedAt |-> 0, accessCount |-> 0, lastAccessedAt |-> 0,
            tags |-> <<"editor", "ui">>, metadata |-> <<>>,
            vector |-> Some(embed(EmbedText("Dark themes", "Likes dark themes",
                                            "The user likes dark themes"))) ])

\* After init(), with one or two memories close to the candidate.
InitDedup ==
    /\ tableExists = TRUE
    /\ table \in { <<DarkModeRow>>, <<DarkModeRow, DarkItemRow>>, <<DarkModeRow, AgentRow>> }
    /\ nextUuid = 3
    /\ initPc = "done"
    /\ initialized = TRUE
    /\ ftsReady = TRUE
    /\ writeLock = InitialPromise
    /\ resolved = {InitialPromise}
    /\ calls = [c \in Slots |-> IdleCall]
    /\ now = 1
    /\ faults = 0
    /\ probe = None
    /\ factory = None
    /\ retriever = None
    /\ \E strategy \in Strategies :
          manager = [strategy |-> strategy, calls |-> [c \in Slots |-> IdleManagerCall]]

NextDedup ==
    \E c \in Slots :
        \/ ProcessCall(c)
        \/ Extract(c)
        \/ StoreExtractedEmbed(c)
        \/ Deduplicate(c)
        \/ LlmDecide(c)
        \/ MergeEmbed(c)
        \/ MergeUpdate(c)
        \/ CreateInsert(c)

SpecDedup == InitDedup /\ [][NextDedup]_vars

\* --------------------------------------------- claims about deduplication

\* The positions of the rows of the candidate's scope and category whose
\* similarity to the candidate's vector reaches the threshold.
SimilarPositions(rows, queryVector, scope, category) ==
    { i \in 1..Len(rows) :
        /\ rows[i].scope = scope
        /\ rows[i].category = category
        /\ VectorScore(queryVector, rows[i]) >= similarityThreshold }

\* tags is existingTags followed by the tags of candidateTags that
\* existingTags does not hold, each once.
TagsUnion(tags, existingTags, candidateTags) ==
    /\ \A i \in 1..Len(tags) : \A j \in 1..Len(tags) : i # j => tags[i] # tags[j]
    /\ Elements(tags) = Elements(existingTags) \cup Elements(candidateTags)
    /\ Len(tags) >= Len(existingTags)
    /\ SubSeq(tags, 1, Len(existingTags)) = existingTags
    /\ SubSeq(tags, Len(existingTags) + 1, Len(tags))
          = SelectSeq(candidateTags, LAMBDA tag : tag \notin Elements(existingTags))

\* C21: with the strategy vector, a candidate that is not append-only and
\* has a stored memory of its scope and category at or above the similarity
\* threshold gets MERGE into a most similar one: the headline is the
\* candidate's, summary and content are the stored texts with the
\* candidate's appended, the tags are the stored tags followed by the
\* candidate's new ones, and the LLM is not asked.
C21_VectorStrategyMerges ==
    [][\A c \in Slots :
          LET call == manager.calls[c]
              after == manager'.calls[c]
              candidate == call.extracted[call.i]
              similar == SimilarPositions(table, call.vector[1], call.scope, candidate.category)
          IN  ( /\ manager.strategy = "vector"
                /\ call.pc = "dedup"
                /\ after # call
                /\ candidate.category \notin {"events", "cases"}
                /\ similar # {} )
              => /\ after.dedup # None
                 /\ after.dedup[1].decision = "MERGE"
                 /\ after.llmDecisions = call.llmDecisions
                 /\ after.pc = "merge_embed"
                 /\ \E i \in similar :
                       LET best == fromRow(table[i])
                           result == after.dedup[1]
                       IN  /\ \A j \in similar :
                                 VectorScore(call.vector[1], table[j])
                                    <= VectorScore(call.vector[1], table[i])
                           /\ result.targetId = Some(best.id)
                           /\ result.mergedHeadline = Some(candidate.headline)
                           /\ result.mergedSummary
                                 = Some(best.summary \o "\n\nUpdate: " \o candidate.summary)
                           /\ result.mergedContent
                                 = Some(best.content \o "\n\n---\n\n" \o candidate.content)
                           /\ result.mergedTags # None
                           /\ TagsUnion(result.mergedTags[1], best.tags, candidate.tags)]_vars

\* With the strategy vector a candidate was merged into the second row of
\* the table, the closer of two similar memories, without a request to the
\* LLM.
C21_Witness ==
    \E c \in Slots :
        /\ manager.strategy = "vector"
        /\ manager.calls[c].pc = "merge_embed"
        /\ manager.calls[c].dedup # None
        /\ manager.calls[c].dedup[1].targetId = Some("u2")
        /\ manager.calls[c].dedup[1].mergedTags = Some(<<"editor", "ui">>)
        /\ manager.calls[c].llmDecisions = 0
        /\ Len(table) = 2
        /\ table[1].id = "u1"

\* With the strategy vector the tags of the first row and of the candidate
\* were merged, "ui" being in both.
VectorMergeJoinsTags ==
    \E c \in Slots :
        /\ manager.strategy = "vector"
        /\ manager.calls[c].dedup # None
        /\ manager.calls[c].dedup[1].targetId = Some("u1")
        /\ manager.calls[c].dedup[1].mergedTags = Some(<<"ui", "editor">>)

\* llm.complete failed, or its response holds no JSON, or the decision of
\* the JSON is none of CREATE, MERGE, SKIP.
UnusableResponse(response) ==
    \/ response = LlmFailed
    \/ response = NotJson
    \/ /\ DOMAIN response = {"json"}
       /\ response.json.decision \notin {"CREATE", "MERGE", "SKIP"}

\* C22: when the LLM is asked and its request fails, or its response is not
\* JSON, or its decision is not one of the three, deduplicate returns CREATE
\* and the candidate is stored as a new row next to the rows there were.
C22_UnusableLlmAnswerCreates ==
    [][\A c \in Slots :
          LET call == manager.calls[c]
              after == manager'.calls[c]
              candidate == call.extracted[call.i]
          IN  /\ ( /\ call.pc = "llm"
                   /\ after # call
                   /\ UnusableResponse(after.response[1]) )
                 => /\ after.dedup # None
                    /\ after.dedup[1].decision = "CREATE"
                    /\ after.pc = "create"
                    /\ after.llmDecisions = call.llmDecisions + 1
              /\ ( /\ call.pc = "create"
                   /\ call.response # None
                   /\ UnusableResponse(call.response[1])
                   /\ Len(after.stored) > Len(call.stored) )
                 => /\ Len(table') = Len(table) + 1
                    /\ SubSeq(table', 1, Len(table)) = table
                    /\ \A i \in 1..Len(table) : table[i].id # table'[Len(table')].id
                    /\ table'[Len(table')].headline = candidate.headline
                    /\ table'[Len(table')].summary = candidate.summary
                    /\ table'[Len(table')].content = candidate.content
                    /\ table'[Len(table')].category = candidate.category ]_vars

\* A processTurn whose LLM answered the dedup prompt with text that is no
\* JSON ended with its one candidate stored.
C22_Witness ==
    \E c \in Slots :
        /\ manager.calls[c].pc = "done"
        /\ manager.calls[c].response = Some(NotJson)
        /\ manager.calls[c].llmDecisions = 1
        /\ manager.calls[c].dedup # None
        /\ manager.calls[c].dedup[1].decision = "CREATE"
        /\ Len(manager.calls[c].stored) = 1

\* In this step the db.update of a MERGE succeeded for the call c.
MergeApplied(c) ==
    /\ manager.calls[c].pc = "merge_update"
    /\ Len(manager'.calls[c].stored) > Len(manager.calls[c].stored)

\* The vector of the row of id is the embedding of the row's own text.
VectorOfOwnText(rows, id) ==
    /\ QueryById(rows, id) # <<>>
    /\ LET row == QueryById(rows, id)[1]
       IN  row.vector = Some(embed(EmbedText(row.headline, row.summary, row.content)))

\* C23: after a MERGE was applied to a memory, the stored vector is the
\* embedding of headline, summary and content as they are stored after the
\* merge, whichever of the merged fields the decision holds.
C23_MergedVectorMatchesText ==
    [][\A c \in Slots :
          MergeApplied(c) =>
              VectorOfOwnText(table', manager.calls[c].dedup[1].targetId[1])]_vars

\* The same for the decisions that hold merged content.
MergedContentIsReembedded ==
    [][\A c \in Slots :
          (MergeApplied(c) /\ manager.calls[c].dedup[1].mergedContent # None) =>
              VectorOfOwnText(table', manager.calls[c].dedup[1].targetId[1])]_vars

\* ============================================ incrementAccessCount's frame

\* The call c is an incrementAccessCount that settles in this step.
IncrementSettles(c) ==
    /\ calls[c].op = "incrementAccessCount"
    /\ calls[c].pc # "done"
    /\ calls'[c].pc = "done"

\* The rows of `rows` whose id is not `id`.
OtherRows(rows, id) == { rows[i] : i \in { j \in 1..Len(rows) : rows[j].id # id } }

\* The row with every field but `keys`.
Without(row, keys) == [field \in DOMAIN row \ keys |-> row[field]]

\* C34: incrementAccessCount(id) of an existing row settles with exactly one
\* row of that id, equal to the row it read in every field (vector,
\* updatedAt and createdAt included) except accessCount, which is one more,
\* and lastAccessedAt; every other row is as it was.  Of an id with no row
\* it changes nothing.  Stated for the runs in which the engine never fails
\* a well-formed add.
C34_IncrementChangesOnlyAccessFields ==
    [][ \A c \in Slots :
          (IncrementSettles(c) /\ faults' = 0) =>
             IF calls'[c].pre = None
             THEN table' = table
             ELSE LET pre == calls'[c].pre[1]
                      found == QueryById(table', pre.id)
                  IN  /\ Len(found) = 1
                      /\ found[1].accessCount = pre.accessCount + 1
                      /\ Without(found[1], {"accessCount", "lastAccessedAt"})
                            = Without(pre, {"accessCount", "lastAccessedAt"})
                      /\ OtherRows(table', pre.id) = OtherRows(table, pre.id) ]_vars

\* When the engine stores the row it is handed, the row an
\* incrementAccessCount writes equals the row it read in every field except
\* accessCount, lastAccessedAt and the vector, and the other rows are as
\* they were.
IncrementKeepsTextFields ==
    [][ \A c \in Slots :
          (IncrementSettles(c) /\ calls'[c].error = "") =>
             IF calls'[c].pre = None
             THEN table' = table
             ELSE LET pre == calls'[c].pre[1]
                      found == QueryById(table', pre.id)
                  IN  /\ Len(found) = 1
                      /\ found[1].accessCount = pre.accessCount + 1
                      /\ Without(found[1], {"accessCount", "lastAccessedAt", "vector"})
                            = Without(pre, {"accessCount", "lastAccessedAt", "vector"})
                      /\ OtherRows(table', pre.id) = OtherRows(table, pre.id) ]_vars

\* ================================================= the sentinel row of init

\* The getDB caller c was handed a TinmemDB whose init() has returned: every
\* operation on it passes ensureInit.
HandedInitialized(c) ==
    /\ factory.callers[c].pc = "done"
    /\ factory.callers[c].error = ""

\* C32: while a caller holds a TinmemDB that passes ensureInit, the table it
\* reads holds no row with the id __tinmem_init__: the sentinel row is
\* deleted before the first operation can run, whether init() created the
\* table or opened it.
C32_SentinelNeverVisible ==
    \A c \in Slots :
        HandedInitialized(c) => ~factory.tables[factory.callers[c].dbPath].sentinel

\* The init() that created the table returns after the sentinel row was
\* deleted.
CreatorDeletesSentinelFirst ==
    [][ \A c \in Slots :
          ( /\ factory.callers[c].pc = "deleteSentinel"
            /\ factory'.callers[c].pc = "set" )
          => ~factory'.tables[factory.callers[c].dbPath].sentinel ]_vars

\* ========================================================= the FTS indexes
\*
\* init and the inserts of one TinmemDB, with the full-text indexes the
\* engine keeps for the table.  In this specification `probe` is the
\* engine's side of the indexes: the table the directory held when the
\* process started (`disk`), the columns that have an FTS index (`indexes`),
\* and whether createIndex was ever requested while the table held no real
\* row (`early`).

\* The columns ensureFtsIndexes indexes.
FtsColumns == {"content", "summary", "headline", "tags"}

\* What dbPath held when the process started: no table; a table an earlier
\* run created (init only, the sentinel row deleted) and never inserted
\* into; a table an earlier run inserted SeedRow into and indexed.
Disks == {"none", "empty", "seeded"}

\* The rows of `rows` other than the sentinel row.
RealRows(rows) == SelectSeq(rows, LAMBDA r : r.id # INIT_SENTINEL_ID)

InitFts ==
    /\ \E disk \in Disks :
          /\ tableExists = (disk # "none")
          /\ table = IF disk = "seeded" THEN <<SeedRow>> ELSE <<>>
          /\ nextUuid = IF disk = "seeded" THEN 2 ELSE 1
          /\ probe = [ disk |-> disk,
                       indexes |-> IF disk = "seeded" THEN FtsColumns ELSE {},
                       early |-> FALSE ]
    /\ initPc = "new"
    /\ initialized = FALSE
    /\ ftsReady = FALSE
    /\ writeLock = InitialPromise
    /\ resolved = {InitialPromise}
    /\ calls = [c \in Slots |-> IdleCall]
    /\ now = 0
    /\ faults = 0
    /\ manager = None
    /\ factory = None
    /\ retriever = None

\* insert and bulkInsert: ensureFtsIndexes() and the return.  With ftsReady
\* unset, createIndex is requested for each column; a createIndex that
\* throws is ignored, and ftsReady is set in every case.
EnsureFtsIndexes(c) ==
    LET call == calls[c]
        counted == [call EXCEPT !.engineCalls = @ + (IF ftsReady THEN 0 ELSE 4)]
        early == probe.early \/ RealRows(table) = <<>>
    IN  /\ call.op \in {"insert", "bulkInsert"}
        /\ call.pc = "fts"
        /\ ftsReady' = TRUE
        /\ IF ftsReady
           THEN UNCHANGED <<probe, faults>>
           ELSE \/ /\ probe' = [probe EXCEPT !.indexes = @ \cup FtsColumns, !.early = early]
                   /\ UNCHANGED faults
                \/ /\ faults < MaxFaults
                   /\ faults' = faults + 1
                   /\ \E failed \in (SUBSET FtsColumns) \ {{}} :
                         probe' = [probe EXCEPT !.indexes = @ \cup (FtsColumns \ failed),
                                                !.early = early]
        /\ calls' = [calls EXCEPT ![c] =
              IF call.op = "insert"
              THEN Returned(counted, fromRow(toRow(call.record[1])))
              ELSE Returned(counted, "undefined")]
        /\ resolved' = resolved \cup {c}
        /\ UNCHANGED <<manager, factory, retriever, tableExists, table, initPc, initialized,
                       writeLock, now, nextUuid>>

NextFts ==
    \/ InitOpen
    \/ InitCreate
    \/ InitDeleteSentinel
    \/ \E c \in Slots :
          \/ WithWriteLockEnter(c)
          \/ InsertCall(c)
          \/ BulkInsertCall(c)
          \/ InsertAdd(c)
          \/ EnsureFtsIndexes(c)

SpecFts == InitFts /\ [][NextFts]_vars

\* No write is inside the body of withWriteLock.
NoWriteInProgress == \A c \in Slots : ~InBody(calls[c])

\* C33: createIndex is never requested while the table holds no real row,
\* and whenever the table holds a real row and no write is in progress, the
\* columns content, summary, headline and tags have an FTS index: for a
\* table created by this process and for one opened from disk, one that
\* never received an insert included.  Stated for the runs in which no
\* engine request fails.
C33_FtsIndexesFollowFirstRow ==
    /\ ~probe.early
    /\ ( /\ faults = 0
         /\ initialized
         /\ RealRows(table) # <<>>
         /\ NoWriteInProgress )
       => probe.indexes = FtsColumns

\* createIndex is never requested while the table holds no real row, and a
\* table this process created, or one an earlier run already indexed, has
\* its four FTS indexes whenever it holds a real row and no write is in
\* progress, in the runs in which no engine request fails.
FtsIndexesOfCreatedTable ==
    /\ ~probe.early
    /\ ( /\ faults = 0
         /\ initialized
         /\ probe.disk # "empty"
         /\ RealRows(table) # <<>>
         /\ NoWriteInProgress )
       => probe.indexes = FtsColumns

\* ================================================== deleted rows stay deleted

\* The settled call removed the row with the id: a delete that found it, a
\* deleteMany that lists it, or a deleteByScope of the scope of the row
\* (the one row these runs can hold is SeedRow) that counted a row.
Removed(call, id) ==
    /\ call.pc = "done"
    /\ call.error = ""
    /\ \/ call.op = "delete" /\ call.id = id /\ call.result = Some(TRUE)
       \/ call.op = "deleteMany" /\ \E i \in 1..Len(call.ids) : call.ids[i] = id
       \/ /\ call.op = "deleteByScope"
          /\ id = SeedRow.id
          /\ call.scope = Some(SeedRow.scope)
          /\ call.before > 0

\* C36: once a delete, deleteMany or deleteByScope that removed the row
\* with an id has completed, no row with that id exists, whatever update or
\* incrementAccessCount of the id was requested before it, while it was
\* pending, or after it (the other call of the run is one of those, so no
\* insert or import brings the id back).
C36_DeletedRowNotRecreated ==
    \A d \in Slots, c \in Slots, id \in ValidIdArgs :
        ( /\ c # d
          /\ Removed(calls[d], id)
          /\ calls[c].op \in {"none", "update", "incrementAccessCount"} )
        => CountId(table, id) = 0

\* An incrementAccessCount that rewrote the row was requested first, the
\* delete of the same id queued behind it, and both have settled.
C36_Witness ==
    /\ calls[1].op = "incrementAccessCount"
    /\ calls[1].pc = "done"
    /\ calls[1].pre # None
    /\ calls[1].error = ""
    /\ calls[2].prev = 1
    /\ Removed(calls[2], calls[1].id)
    /\ CountId(table, calls[1].id) = 0

\* ============================================================ TinmemDB.list
\*
\* list(options) on a table whose rows the engine keeps, and returns, in
\* storage order.  `probe` is the call: its options and its result.

\* Most rows of a table of this specification.
MaxRows == 3

\* options.limit ?? 100
DefaultLimit == 100

\* Rows with distinct createdAt and distinct importance; the last one is of
\* another scope.
ListRows ==
    { [SeedRow EXCEPT !.id = "u1", !.createdAt = 1, !.importance = 30],
      [SeedRow EXCEPT !.id = "u2", !.createdAt = 2, !.importance = 10],
      [SeedRow EXCEPT !.id = "u3", !.createdAt = 3, !.importance = 20],
      [SeedRow EXCEPT !.id = "u4", !.createdAt = 4, !.importance = 40,
                      !.scope = "agent:a"] }

\* The tables of at most MaxRows of these rows, in every storage order.
ListTables ==
    { rows \in UNION { [1..n -> ListRows] : n \in 0..MaxRows } :
        \A i, j \in 1..Len(rows) : i # j => rows[i] # rows[j] }

ListOptions ==
    [ scope : {None, Some("global")},
      orderBy : {None, Some("createdAt"), Some("importance")},
      orderDir : {None, Some("asc"), Some("desc")},
      limit : {None, Some(1), Some(2)},
      offset : {None, Some(0), Some(1)} ]

\* value ?? fallback
OrElse(value, fallback) == IF value = None THEN fallback ELSE value[1]

\* The first n elements of the sequence (all of them when it has fewer).
Take(seq, n) == SubSeq(seq, 1, IF n < Len(seq) THEN n ELSE Len(seq))

\* memories.sort((a, b) => orderDir === 'asc' ? av - bv : bv - av): a stable
\* sort on the value of orderBy.
SortedBy(memories, orderBy, orderDir) ==
    LET before(i, j) ==
            \/ IF orderDir = "asc"
               THEN memories[i][orderBy] < memories[j][orderBy]
               ELSE memories[i][orderBy] > memories[j][orderBy]
            \/ memories[i][orderBy] = memories[j][orderBy] /\ i < j
        place(i) == 1 + Cardinality({ j \in 1..Len(memories) : before(j, i) })
    IN  [ k \in 1..Len(memories) |->
            memories[CHOOSE i \in 1..Len(memories) : place(i) = k] ]

\* The complete set of rows the options match, sorted, and of these the
\* rows offset .. offset + limit - 1.
PageOfAllMatches(rows, options) ==
    LET all == SortedBy(Filtered(rows, options.scope, <<>>),
                        OrElse(options.orderBy, "createdAt"),
                        OrElse(options.orderDir, "desc"))
        offset == OrElse(options.offset, 0)
    IN  Take(SubSeq(all, offset + 1, Len(all)), OrElse(options.limit, DefaultLimit))

\* list(options): the engine returns the first limit + offset rows the
\* filter selects, in storage order; these are sorted and sliced.
list(rows, options) ==
    LET limit == OrElse(options.limit, DefaultLimit)
        results == Take(Filtered(rows, options.scope, <<>>),
                        limit + OrElse(options.offset, 0))
        memories == [i \in 1..Len(results) |-> fromRow(results[i])]
        sorted == SortedBy(memories, OrElse(options.orderBy, "createdAt"),
                           OrElse(options.orderDir, "desc"))
        paginated == IF OrElse(options.offset, 0) # 0
                     THEN SubSeq(sorted, options.offset[1] + 1, Len(sorted))
                     ELSE sorted
    IN  Take(paginated, limit)

InitList ==
    /\ tableExists = TRUE
    /\ table \in ListTables
    /\ nextUuid = 5
    /\ initPc = "done"
    /\ initialized = TRUE
    /\ ftsReady = TRUE
    /\ writeLock = InitialPromise
    /\ resolved = {InitialPromise}
    /\ calls = [c \in Slots |-> IdleCall]
    /\ now = 0
    /\ faults = 0
    /\ manager = None
    /\ factory = None
    /\ retriever = None
    /\ probe = [ op |-> "list", pc |-> "idle", options |-> None, result |-> None ]

\* list(options), up to `await query.toArray()`.
ListCall ==
    /\ probe.pc = "idle"
    /\ \E options \in ListOptions :
          probe' = [probe EXCEPT !.pc = "query", !.options = Some(options)]
    /\ UNCHANGED <<dbVars, manager, factory, retriever>>

\* list: the query settles; the rows are sorted, sliced and returned.
ListQuery ==
    /\ probe.pc = "query"
    /\ probe' = [probe EXCEPT !.pc = "done",
                              !.result = Some(list(table, probe.options[1]))]
    /\ UNCHANGED <<dbVars, manager, factory, retriever>>

NextList == ListCall \/ ListQuery

SpecList == InitList /\ [][NextList]_vars

\* The rows the options of the call match.
ListMatches == Filtered(table, probe.options[1].scope, <<>>)

\* C40: list returns the rows offset .. offset + limit - 1 of the complete
\* set of matching rows sorted by orderBy and orderDir (by default the limit
\* most recently created), whatever order the engine stores and returns the
\* rows in and however many match.
C40_ListReturnsPageOfAllMatches ==
    probe.pc = "done"
    => Ids(probe.result[1]) = Ids(PageOfAllMatches(table, probe.options[1]))

\* When no more than limit + offset rows match, list returns that page.
ListReturnsPageOfFewMatches ==
    ( /\ probe.pc = "done"
      /\ Len(ListMatches) <= OrElse(probe.options[1].limit, DefaultLimit)
                                + OrElse(probe.options[1].offset, 0) )
    => Ids(probe.result[1]) = Ids(PageOfAllMatches(table, probe.options[1]))

\* ======================================================== getMemoryManager
\*
\* The module-level `instance` of manager.ts and the hooks that call
\* getMemoryManager.  `probe` is the state of the module: `instance` (is a
\* MemoryManager assigned), `ready` (its `ready` field), `initCalls` (how
\* often init() was entered) and the hook invocations.

\* The hook invocations of a behaviour.
Hooks == 1..3

HookKinds == {"agent_end", "before_agent_start"}

NotReady == "MemoryManager not initialized. Call init() first."

GetDBFailed == "getDB: init failed"

IdleHook == [ kind |-> "none", pc |-> "idle", manager |-> FALSE, error |-> "" ]

InitSingleton ==
    /\ tableExists = FALSE
    /\ table = <<>>
    /\ nextUuid = 1
    /\ initPc = "new"
    /\ initialized = FALSE
    /\ ftsReady = FALSE
    /\ writeLock = InitialPromise
    /\ resolved = {InitialPromise}
    /\ calls = [c \in Slots |-> IdleCall]
    /\ now = 0
    /\ faults = 0
    /\ manager = None
    /\ factory = None
    /\ retriever = None
    /\ probe = [ instance |-> FALSE, ready |-> FALSE, initCalls |-> 0,
                 hooks |-> [h \in Hooks |-> IdleHook] ]

\* A hook calls getMemoryManager(config).  With no instance, one is
\* constructed and assigned and init() runs up to `await getDB(...)`; with an
\* instance assigned, it is returned.
GetMemoryManagerCall(h) ==
    /\ probe.hooks[h].pc = "idle"
    /\ \E kind \in HookKinds :
          probe' =
              IF ~probe.instance
              THEN [probe EXCEPT !.instance = TRUE,
                                 !.initCalls = @ + 1,
                                 !.hooks[h] = [IdleHook EXCEPT !.kind = kind, !.pc = "init"]]
              ELSE [probe EXCEPT !.hooks[h] = [IdleHook EXCEPT !.kind = kind, !.pc = "returned",
                                                               !.manager = TRUE]]
    /\ UNCHANGED <<dbVars, manager, factory, retriever>>

\* init(): getDB settles.  When it resolves, the services are built, ready
\* is set and getMemoryManager returns the instance; when it throws,
\* getMemoryManager throws, the hook catches the error, and `instance` stays
\* assigned.
ManagerInitSettles(h) ==
    /\ probe.hooks[h].pc = "init"
    /\ \/ /\ probe' = [probe EXCEPT !.ready = TRUE,
                                    !.hooks[h].pc = "returned",
                                    !.hooks[h].manager = TRUE]
          /\ UNCHANGED faults
       \/ /\ MayFault
          /\ faults' = faults + 1
          /\ probe' = [probe EXCEPT !.hooks[h].pc = "done", !.hooks[h].error = GetDBFailed]
    /\ UNCHANGED <<tableExists, table, initPc, initialized, ftsReady, writeLock, resolved,
                   calls, now, nextUuid, manager, factory, retriever>>

\* The hook calls manager.processTurn (agent_end) or manager.recall
\* (before_agent_start): ensureReady() throws unless ready is set, and the
\* hook catches the error.
HookUsesManager(h) ==
    /\ probe.hooks[h].pc = "returned"
    /\ probe' = [probe EXCEPT !.hooks[h].pc = "done",
                              !.hooks[h].error = IF probe.ready THEN "" ELSE NotReady]
    /\ UNCHANGED <<dbVars, manager, factory, retriever>>

NextSingleton ==
    \E h \in Hooks :
        \/ GetMemoryManagerCall(h)
        \/ ManagerInitSettles(h)
        \/ HookUsesManager(h)

SpecSingleton == InitSingleton /\ [][NextSingleton]_vars

\* C37: every MemoryManager getMemoryManager has returned has completed
\* init(), so ensureReady never fails on it, and init() is entered at most
\* once, in every interleaving of the hooks.
C37_ReturnedManagerIsReady ==
    /\ \A h \in Hooks :
          /\ probe.hooks[h].manager => probe.ready
          /\ probe.hooks[h].error # NotReady
    /\ probe.initCalls <= 1

\* init() is entered at most once, and the caller whose getMemoryManager
\* ran init() is handed a ready manager.
InitEnteredOnce ==
    /\ probe.initCalls <= 1
    /\ [][ \A h \in Hooks :
             (probe.hooks[h].pc = "init" /\ probe'.hooks[h].manager) => probe'.ready ]_vars

\* ======================================= storeExtracted, decision by decision

\* The manager call c took this step.
Acted(c) == manager'.calls[c] # manager.calls[c]

\* The table after the step is the table before it, or that with one row
\* added at its end.
AtMostOneInsert ==
    /\ Len(table') \in {Len(table), Len(table) + 1}
    /\ SubSeq(table', 1, Len(table)) = table

\* The step wrote at most the row with the id, and added no id.
AtMostOneUpdateOf(id) ==
    /\ OtherRows(table', id) = OtherRows(table, id)
    /\ CountId(table', id) <= CountId(table, id)

\* What a step of storeExtracted does to the Store, by the decision of the
\* candidate: deduplicate itself writes nothing (so SKIP leaves the Store as
\* it was), after CREATE the one Store call is an insert, after MERGE the
\* one Store call is an update of the targetId.
StepFollowsDecision(c) ==
    LET call == manager.calls[c]
    IN  /\ call.pc \in {"dedup", "llm", "merge_embed"} => table' = table
        /\ call.dedup # None =>
              CASE call.dedup[1].decision = "CREATE" ->
                      call.pc = "create" /\ AtMostOneInsert
                [] call.dedup[1].decision = "MERGE" ->
                      /\ call.pc \in {"merge_embed", "merge_update"}
                      /\ call.dedup[1].targetId # None
                      /\ AtMostOneUpdateOf(call.dedup[1].targetId[1])
                [] OTHER -> FALSE

\* C31: for every candidate storeExtracted processes, SKIP causes no
\* mutation of the Store, CREATE causes one insert and no update, and MERGE
\* causes one update of the row the decision's targetId names and no
\* insert.
C31_OneStoreCallPerDecision ==
    [][ \A c \in Slots : Acted(c) => StepFollowsDecision(c) ]_vars

\* The same for the candidates whose MERGE carries a targetId.
OneStoreCallPerTargetedDecision ==
    [][ \A c \in Slots :
          ( /\ Acted(c)
            /\ manager.calls[c].dedup # None
               => ( manager.calls[c].dedup[1].decision = "MERGE"
                    => Truthy(manager.calls[c].dedup[1].targetId) ) )
          => StepFollowsDecision(c) ]_vars

\* The rows of another scope or another category than the candidate the
\* call c is storing.
ForeignRows(c) ==
    LET call == manager.calls[c]
        candidate == call.extracted[call.i]
    IN  { table[i] : i \in { j \in 1..Len(table) :
                               \/ table[j].scope # call.scope
                               \/ table[j].category # candidate.category } }

\* C35: the update of a MERGE rewrites a memory of the candidate's scope
\* and category only: every row of another scope or category is in the
\* table after the step as it was before, whatever targetId the decision
\* carries.
C35_MergeStaysInScopeAndCategory ==
    [][ \A c \in Slots :
          (Acted(c) /\ manager.calls[c].pc = "merge_update")
          => \A row \in ForeignRows(c) : \E i \in 1..Len(table') : table'[i] = row ]_vars

\* With strategy vector, where deduplicate itself names the target (the best
\* match of the vector search), a MERGE leaves every row of another scope
\* or category as it was.
VectorMergeStaysInScopeAndCategory ==
    [][ \A c \in Slots :
          (Acted(c) /\ manager.calls[c].pc = "merge_update" /\ manager.strategy = "vector")
          => \A row \in ForeignRows(c) : \E i \in 1..Len(table') : table'[i] = row ]_vars

\* The call c finishes a candidate whose decision is CREATE or MERGE with a
\* Store call in this step.
FinishesCandidate(c) ==
    /\ Acted(c)
    /\ manager.calls[c].pc \in {"create", "merge_update"}

\* The text the candidate of call c is persisted with: the merged content
\* of the update branch, the candidate's content otherwise.
PersistedContent(c) ==
    LET call == manager.calls[c]
    IN  IF call.pc = "merge_update"
        THEN Coalesce(call.dedup[1].mergedContent, Some(call.extracted[call.i].content))[1]
        ELSE call.extracted[call.i].content

\* The step appended to `stored` a memory whose row is in the table with
\* the text of the candidate.
Persisted(c) ==
    LET stored == manager'.calls[c].stored
    IN  /\ Len(stored) = Len(manager.calls[c].stored) + 1
        /\ \E i \in 1..Len(table') :
              /\ table'[i].id = stored[Len(stored)].id
              /\ table'[i].content = PersistedContent(c)

\* C38: every candidate whose embedding succeeded and whose decision is
\* CREATE or MERGE is persisted: when its Store call has settled, a row
\* holds its text (a new row, or the MERGE target with the merged text) and
\* the memory is in the list storeExtracted returns, whatever targetId the
\* MERGE carries.  Stated for the runs in which no request fails.
C38_DecidedCandidateIsPersisted ==
    [][ \A c \in Slots : (FinishesCandidate(c) /\ faults' = 0) => Persisted(c) ]_vars

\* The same for CREATE and for a MERGE whose targetId names a row of the
\* table.
CandidateWithStoredTargetIsPersisted ==
    [][ \A c \in Slots :
          ( /\ FinishesCandidate(c)
            /\ faults' = 0
            /\ manager.calls[c].pc = "merge_update"
               => CountId(table, manager.calls[c].dedup[1].targetId[1]) > 0 )
          => Persisted(c) ]_vars

\* ================================================== overlapping ingestions
\*
\* Two ingestions (processTurn, processSession) with strategy vector into a
\* table that holds no memory yet: the first to insert the candidate leaves
\* a row the vector search of the other finds with similarity 1.

InitIngest ==
    /\ tableExists = TRUE
    /\ table = <<>>
    /\ nextUuid = 1
    /\ initPc = "done"
    /\ initialized = TRUE
    /\ ftsReady = TRUE
    /\ writeLock = InitialPromise
    /\ resolved = {InitialPromise}
    /\ calls = [c \in Slots |-> IdleCall]
    /\ now = 0
    /\ faults = 0
    /\ probe = None
    /\ factory = None
    /\ retriever = None
    /\ manager = [strategy |-> "vector", calls |-> [c \in Slots |-> IdleManagerCall]]

NextIngest ==
    \E c \in Slots :
        \/ ProcessCall(c)
        \/ Extract(c)
        \/ StoreExtractedEmbed(c)
        \/ Deduplicate(c)
        \/ MergeEmbed(c)
        \/ MergeUpdate(c)
        \/ CreateInsert(c)

SpecIngest == InitIngest /\ [][NextIngest]_vars

\* The manager call ingested one candidate of category preferences into the
\* default scope and has returned.
IngestedPreference(call) ==
    /\ call.op \in {"processTurn", "processSession"}
    /\ call.pc = "done"
    /\ call.scope = defaultScope
    /\ Len(call.extracted) = 1
    /\ call.extracted[1].category = "preferences"

\* Both calls ingested the same candidate, and no request failed.
SameCandidateIngestedTwice ==
    /\ manager.strategy = "vector"
    /\ faults = 0
    /\ \A c \in Slots : IngestedPreference(manager.calls[c])
    /\ manager.calls[1].extracted = manager.calls[2].extracted

\* The rows of the default scope and category preferences.
PreferenceRows == Filtered(table, Some(defaultScope), <<"preferences">>)

\* C39: with strategy vector, two ingestions of the same candidate (not of
\* an append-only category, same scope, similarity at or above the
\* threshold) leave exactly one row for it, whether they overlap or run one
\* after the other.  Stated for the runs in which no request fails.
C39_OverlappingIngestionsLeaveOneRow ==
    SameCandidateIngestedTwice => Len(PreferenceRows) = 1

\* When one of the two ingestions found the row of the other (its decision
\* was MERGE), as it does when they run one after the other, one row is
\* left.
IngestionsThatMetLeaveOneRow ==
    ( /\ SameCandidateIngestedTwice
      /\ \E c \in Slots : manager.calls[c].dedup[1].decision = "MERGE" )
    => Len(PreferenceRows) = 1

\* An ingestion whose deduplicate runs once the row of the other is in the
\* table, as it does when they run one after the other, decides MERGE.
DedupFindsStoredCandidate ==
    [][ \A c \in Slots :
          ( /\ Acted(c)
            /\ manager.calls[c].pc = "dedup"
            /\ manager.calls[c].scope = defaultScope
            /\ manager.calls[c].extracted[manager.calls[c].i].category = "preferences"
            /\ \E i \in 1..Len(PreferenceRows) :
                  PreferenceRows[i].vector = manager.calls[c].vector )
          => /\ manager'.calls[c].dedup # None
             /\ manager'.calls[c].dedup[1].decision = "MERGE" ]_vars

====
